---- MODULE Spec2Model ----
(***************************************************************************)
(* ch2ts core pipeline: DDL text -> tokens -> TableAst -> MappedTable.     *)
(* Strings are sequences of one-character strings, so that trimming,       *)
(* splitting, case conversion and the regular expressions of the source    *)
(* are computed character by character.                                    *)
(***************************************************************************)
EXTENDS Naturals, Sequences, FiniteSets, TLC

VARIABLES
  stmts,     \* the DDL input under construction: sequence of [pre, body] statement texts
  pc,        \* "input" while an input is built, then what was run on it
  kept,      \* output of filterSupportedStatements on the input
  tables,    \* output of parse (index)
  wraps,     \* type under construction: wrapper kinds, outermost first
  leaf,      \* type under construction: innermost type name
  opts,      \* the MappingOptions of the last mapping call
  typeRes,   \* result of mapTypeAstToTs on the built type
  asts,      \* TableAst list handed to map
  mapped,    \* result of map
  out        \* what the renderers returned for mapped: [ts, json]

vars == <<stmts, pc, kept, tables, wraps, leaf, opts, typeRes, asts, mapped, out>>

-----------------------------------------------------------------------------
(* Characters and strings                                                  *)

UpperSeq == <<"A","B","C","D","E","F","G","H","I","J","K","L","M",
              "N","O","P","Q","R","S","T","U","V","W","X","Y","Z">>
LowerSeq == <<"a","b","c","d","e","f","g","h","i","j","k","l","m",
              "n","o","p","q","r","s","t","u","v","w","x","y","z">>
DigitSet == {"0","1","2","3","4","5","6","7","8","9"}
UpperSet == {UpperSeq[i] : i \in 1..26}
LowerSet == {LowerSeq[i] : i \in 1..26}

LowerOf == [c \in UpperSet |-> LowerSeq[CHOOSE i \in 1..26 : UpperSeq[i] = c]]
UpperOf == [c \in LowerSet |-> UpperSeq[CHOOSE i \in 1..26 : LowerSeq[i] = c]]

toLowerChar(c) == IF c \in UpperSet THEN LowerOf[c] ELSE c
toUpperChar(c) == IF c \in LowerSet THEN UpperOf[c] ELSE c

\* String.prototype.toLowerCase
toLowerCase(s) == [i \in 1..Len(s) |-> toLowerChar(s[i])]

\* two characters that JavaScript's \s matches and the WhiteSpace token does not:
\* vertical tab (U+000B) and no-break space (U+00A0), written as atoms
VT == "\\v"
NBSP == "\\u00A0"

\* the WhiteSpace token class /[ \t\n\r\f]+/
isWhiteSpace(c) == c \in {" ", "\t", "\n", "\r", "\f"}
\* \s of the regular expressions and of String.prototype.trim
isSpace(c) == isWhiteSpace(c) \/ c \in {VT, NBSP}
\* \w of the regular expressions: the class behind \b
isWordChar(c) == c \in UpperSet \/ c \in LowerSet \/ c \in DigitSet \/ c = "_"
isIdentStart(c) == c \in UpperSet \/ c \in LowerSet \/ c = "_"
isAlnum(c) == c \in UpperSet \/ c \in LowerSet \/ c \in DigitSet

slice(s, from, to) == IF to < from THEN <<>> ELSE SubSeq(s, from, to)

\* s has the literal w at position i (1-based)
hasAt(s, i, w) ==
  /\ i + Len(w) - 1 <= Len(s)
  /\ \A k \in 1..Len(w) : s[i + k - 1] = w[k]

startsWith(s, w) == hasAt(s, 1, w)

RECURSIVE concat(_)
concat(ss) == IF ss = <<>> THEN <<>> ELSE Head(ss) \o concat(Tail(ss))

\* String.prototype.trim
trim(s) ==
  LET idx == {i \in 1..Len(s) : ~isSpace(s[i])}
  IN IF idx = {} THEN <<>>
     ELSE LET lo == CHOOSE i \in idx : \A j \in idx : i <= j
              hi == CHOOSE i \in idx : \A j \in idx : j <= i
          IN SubSeq(s, lo, hi)

\* String.prototype.split(/;/): the pieces between the ';' characters, empty ones included
splitSemi(s) ==
  LET semis == {i \in 1..Len(s) : s[i] = ";"}
      n == Cardinality(semis)
      \* position of the k-th ';' (0 before the first piece, Len(s)+1 after the last)
      cut(k) == IF k = 0 THEN 0
                ELSE IF k = n + 1 THEN Len(s) + 1
                ELSE CHOOSE i \in semis : Cardinality({j \in semis : j < i}) = k - 1
  IN [k \in 1..(n + 1) |-> slice(s, cut(k - 1) + 1, cut(k) - 1)]

RECURSIVE filterNonEmpty(_)
filterNonEmpty(ss) ==
  IF ss = <<>> THEN <<>>
  ELSE IF Len(Head(ss)) > 0 THEN <<Head(ss)>> \o filterNonEmpty(Tail(ss))
  ELSE filterNonEmpty(Tail(ss))

\* Array.prototype.join(";\n")
RECURSIVE joinSemiNl(_)
joinSemiNl(ss) ==
  IF ss = <<>> THEN <<>>
  ELSE IF Len(ss) = 1 THEN Head(ss)
  ELSE Head(ss) \o <<";", "\n">> \o joinSemiNl(Tail(ss))

\* a value computed once, before the rest of a body reads it under a name
bindValue(v, Rest(_)) == CHOOSE r \in {Rest(x) : x \in {v}} : TRUE

Min(a, b) == IF a < b THEN a ELSE b
Max(a, b) == IF a < b THEN b ELSE a

-----------------------------------------------------------------------------
(* tokens.ts: the lexer.  Token rules are tried in the order of ddlLexer;  *)
(* the first rule matching at the current position wins.                   *)

KeywordText ==
  <<
    <<<<"c","r","e","a","t","e">>, "Create">>,
    <<<<"t","a","b","l","e">>, "Table">>,
    <<<<"m","a","t","e","r","i","a","l","i","z","e","d">>, "Materialized">>,
    <<<<"v","i","e","w">>, "View">>,
    <<<<"i","f">>, "If">>,
    <<<<"n","o","t">>, "Not">>,
    <<<<"e","x","i","s","t","s">>, "Exists">>,
    <<<<"c","o","m","m","e","n","t">>, "Comment">>,
    <<<<"d","e","f","a","u","l","t">>, "Default">>,
    <<<<"c","o","d","e","c">>, "Codec">>,
    <<<<"p","a","r","t","i","t","i","o","n">>, "Partition">>,
    <<<<"o","r","d","e","r">>, "Order">>,
    <<<<"b","y">>, "By">>,
    <<<<"e","n","g","i","n","e">>, "Engine">>,
    <<<<"a","s">>, "As">>,
    <<<<"w","i","t","h">>, "With">>,
    <<<<"s","e","l","e","c","t">>, "Select">>,
    <<<<"f","r","o","m">>, "From">>,
    <<<<"t","o">>, "To">>,
    <<<<"f","o","r">>, "For">>
  >>

\* the least position e >= i with e > Len(s) or Stop(s[e]): the end (exclusive) of
\* the longest run from i of characters that do not satisfy Stop
runEnd(s, i, Stop(_)) ==
  CHOOSE e \in i..(Len(s) + 1) :
    /\ e > Len(s) \/ Stop(s[e])
    /\ \A k \in i..(e - 1) : ~Stop(s[k])

notWordChar(c) == ~isWordChar(c)
notWhiteSpace(c) == ~isWhiteSpace(c)
notDigit(c) == c \notin DigitSet
isNewline(c) == c = "\n"

wordEnd(s, i) == runEnd(s, i, notWordChar)
spaceEnd(s, i) == runEnd(s, i, notWhiteSpace)
digitEnd(s, i) == runEnd(s, i, notDigit)

\* LineComment /--[^\n]*/ : end (exclusive) of the comment whose text starts at i
lineEnd(s, i) == runEnd(s, i, isNewline)

\* BlockComment /\/\*[\s\S]*?\*\// : position after the first "*/" at or after i, 0 if none
blockEnd(s, i) ==
  LET ends == {k \in i..(Len(s) - 1) : s[k] = "*" /\ s[k + 1] = "/"}
  IN IF ends = {} THEN 0 ELSE (CHOOSE k \in ends : \A j \in ends : k <= j) + 2

\* StringLiteral /'(?:[^'\\]|\\.)*'/ : position after the closing quote, 0 if the
\* pattern does not match; i is the position after the opening quote
\* one step of the match: a character that is neither a quote nor a backslash, or a
\* backslash and the character it escapes; the state is [pos, end, done]
stringEndStep(s, st) ==
  IF st.done THEN st
  ELSE IF st.pos > Len(s) THEN [st EXCEPT !.end = 0, !.done = TRUE]
  ELSE IF s[st.pos] = "'" THEN [st EXCEPT !.end = st.pos + 1, !.done = TRUE]
  ELSE IF s[st.pos] = "\\" THEN
         (IF st.pos + 1 <= Len(s) /\ s[st.pos + 1] # "\n" THEN [st EXCEPT !.pos = @ + 2]
          ELSE [st EXCEPT !.end = 0, !.done = TRUE])
  ELSE [st EXCEPT !.pos = @ + 1]

RECURSIVE stringEndSteps(_, _, _)
stringEndSteps(s, st, n) ==
  IF n = 0 THEN st
  ELSE IF n = 1 THEN stringEndStep(s, st)
  ELSE bindValue(stringEndSteps(s, st, n \div 2), LAMBDA half :
         stringEndSteps(s, half, n - (n \div 2)))

stringEnd(s, i) ==
  stringEndSteps(s, [pos |-> i, end |-> 0, done |-> FALSE], Len(s) + 1).end

\* the keyword token type of the word w, "" if w is no keyword (patterns are /i)
keywordOf(w) ==
  LET lw == toLowerCase(w)
      hits == {k \in 1..Len(KeywordText) : KeywordText[k][1] = lw}
  IN IF hits = {} THEN "" ELSE KeywordText[CHOOSE k \in hits : TRUE][2]

Punct == [x \in {"(", ")", ",", ".", "="} |->
            CASE x = "(" -> "LParen" [] x = ")" -> "RParen" [] x = "," -> "Comma"
              [] x = "." -> "Dot" [] x = "=" -> "Eq"]

\* ddlLexer.tokenize: the tokens outside the SKIPPED group, and the number of
\* characters no rule matched (chevrotain records one lexing error for each and
\* resumes after it).  Unknown /[^\s]/ catches every character that is not \s.
\* one match of the lexer at offset st.i - 1 of s, on the lexer state [i, tokens,
\* errors]; at the end of s the state stays as it is
tokenizeStep(s, st) ==
  IF st.i > Len(s) THEN st
  ELSE LET i == st.i
           c == s[i]
           push(e, tt) == [i |-> e, errors |-> st.errors,
                           tokens |-> Append(st.tokens,
                                             [tokenType |-> tt, image |-> SubSeq(s, i, e - 1)])]
       IN
    IF hasAt(s, i, <<"-", "-">>) THEN [st EXCEPT !.i = lineEnd(s, i + 2)]
    ELSE IF hasAt(s, i, <<"/", "*">>) /\ blockEnd(s, i + 2) # 0
      THEN [st EXCEPT !.i = blockEnd(s, i + 2)]
    ELSE IF isWhiteSpace(c) THEN [st EXCEPT !.i = spaceEnd(s, i)]
    ELSE IF c \in DOMAIN Punct THEN push(i + 1, Punct[c])
    ELSE IF c = ";" THEN [st EXCEPT !.i = i + 1]
    ELSE IF isIdentStart(c) THEN
      LET e == wordEnd(s, i)
          \* \b before a keyword: the previous character is not a word character
          kw == IF i > 1 /\ isWordChar(s[i - 1]) THEN "" ELSE keywordOf(SubSeq(s, i, e - 1))
      IN push(e, IF kw # "" THEN kw ELSE "Identifier")
    ELSE IF c = "'" /\ stringEnd(s, i + 1) # 0 THEN push(stringEnd(s, i + 1), "StringLiteral")
    ELSE IF c \in DigitSet THEN push(digitEnd(s, i), "Integer")
    ELSE IF ~isSpace(c) THEN [st EXCEPT !.i = i + 1]
    ELSE [st EXCEPT !.i = i + 1, !.errors = @ + 1]

\* the lexer state after at most n matches; the first half of them is computed
\* before the second half starts
RECURSIVE tokenizeSteps(_, _, _)
tokenizeSteps(s, st, n) ==
  IF n = 0 THEN st
  ELSE IF n = 1 THEN tokenizeStep(s, st)
  ELSE bindValue(tokenizeSteps(s, st, n \div 2), LAMBDA half :
         tokenizeSteps(s, half, n - (n \div 2)))

\* every match consumes at least one character, so Len(s) matches reach the end
tokenizeFrom(s, i, acc) ==
  bindValue(tokenizeSteps(s, [i |-> i, tokens |-> acc.tokens, errors |-> acc.errors], Len(s)),
            LAMBDA st : [tokens |-> st.tokens, errors |-> st.errors])

tokenize(s) == tokenizeFrom(s, 1, [tokens |-> <<>>, errors |-> 0])

-----------------------------------------------------------------------------
(* parser.ts: the recursive-descent parser.  The parser state is the token *)
(* list t and the cursor p (1-based: p = state.position + 1).  Every       *)
(* operator returns [pos, err, val]: err = "" when the call returns, and   *)
(* otherwise the message of the Error it throws.                           *)

Ok(p, v) == [pos |-> p, err |-> "", val |-> v]
Throw(p, msg) == [pos |-> p, err |-> msg, val |-> <<>>]

\* the rest of a function body after a call: it runs when the call returned, and the
\* Error the call throws is the Error of the function
andThen(r, Rest(_)) == IF r.err # "" THEN r ELSE Rest(r)

\* a value the rest of a body reads under a name: const name = v
bindTo(v, Rest(_)) == Rest(v)

isAtEnd(t, p) == p > Len(t)

\* peekToken(state, offset)?.tokenType, "EOF" when peekToken returns undefined
peekType(t, p) == IF p >= 1 /\ p <= Len(t) THEN t[p].tokenType ELSE "EOF"

\* tryMatch: the cursor after the call; the call returns true iff the cursor moved
tryMatch(t, p, tt) == IF peekType(t, p) = tt THEN p + 1 ELSE p

consumeToken(t, p, tt) ==
  IF peekType(t, p) = tt THEN Ok(p + 1, t[p].image) ELSE Throw(p, "Expected")

\* declared by the parser, read by none of its functions
MAX_PARSER_DEPTH == 100

SkipLimit == 1000
ParenLimit == 1000
ColumnNameLimit == 100
DefaultLimit == 50
CodecLimit == 100
FuncArgLimit == 200
CaptureLimit == 500
WithLimit == 2000
CteContentLimit == 5000
TokenLimit == 10000
maxTables == 50
maxItems == 100

\* one iteration of the while loop of skipToToken, on the loop state [pos, err,
\* done]: the cursor, the Error thrown, whether the loop was left
skipToTokenIteration(t, s, startPos, tt) ==
  IF s.done THEN s
  ELSE IF isAtEnd(t, s.pos) THEN [s EXCEPT !.done = TRUE]
  ELSE IF peekType(t, s.pos) = tt THEN [s EXCEPT !.pos = @ + 1, !.done = TRUE]
  ELSE IF (s.pos + 1) - startPos > SkipLimit
    THEN [pos |-> s.pos + 1, err |-> "Skip limit exceeded", done |-> TRUE]
  ELSE [s EXCEPT !.pos = @ + 1]

\* the loop state after at most n iterations; the state of a loop that was left
\* stays as it is.  The first half of the iterations is computed before the second
\* half starts.
RECURSIVE skipToTokenIterations(_, _, _, _, _)
skipToTokenIterations(t, s, startPos, tt, n) ==
  IF n = 0 THEN s
  ELSE IF n = 1 THEN skipToTokenIteration(t, s, startPos, tt)
  ELSE bindValue(skipToTokenIterations(t, s, startPos, tt, n \div 2), LAMBDA half :
         skipToTokenIterations(t, half, startPos, tt, n - (n \div 2)))

\* every iteration that stays in the loop moves the cursor, so the loop is left
\* after at most one iteration per token and one more
skipToTokenFrom(t, p, startPos, tt) ==
  bindValue(skipToTokenIterations(t, [pos |-> p, err |-> "", done |-> FALSE], startPos, tt,
                                  Len(t) + 1),
            LAMBDA s : [pos |-> s.pos, err |-> s.err, val |-> <<>>])

skipToToken(t, p, tt) == skipToTokenFrom(t, p, p, tt)

\* one iteration of the while loop of skipBalancedParens, on the loop state [pos,
\* err, depth, done]
skipParensIteration(t, s, startPos, limit) ==
  IF s.done THEN s
  ELSE IF isAtEnd(t, s.pos) \/ s.depth = 0 THEN [s EXCEPT !.done = TRUE]
  ELSE LET d == IF peekType(t, s.pos) = "LParen" THEN s.depth + 1
                ELSE IF peekType(t, s.pos) = "RParen" THEN s.depth - 1
                ELSE s.depth
       IN IF (s.pos + 1) - startPos > limit
            THEN [pos |-> s.pos + 1, err |-> "Parentheses depth limit exceeded",
                  depth |-> d, done |-> TRUE]
            ELSE [s EXCEPT !.pos = @ + 1, !.depth = d]

RECURSIVE skipParensIterations(_, _, _, _, _)
skipParensIterations(t, s, startPos, limit, n) ==
  IF n = 0 THEN s
  ELSE IF n = 1 THEN skipParensIteration(t, s, startPos, limit)
  ELSE bindValue(skipParensIterations(t, s, startPos, limit, n \div 2), LAMBDA half :
         skipParensIterations(t, half, startPos, limit, n - (n \div 2)))

skipParensFrom(t, p, startPos, depth, limit) ==
  bindValue(skipParensIterations(t, [pos |-> p, err |-> "", depth |-> depth, done |-> FALSE],
                                 startPos, limit, Len(t) + 1),
            LAMBDA s : [pos |-> s.pos, err |-> s.err, val |-> <<>>])

skipBalancedParens(t, p) == skipParensFrom(t, p, p, 1, ParenLimit)

\* Number(image) of an Integer token
RECURSIVE numberOf(_)
numberOf(ds) ==
  IF ds = <<>> THEN 0
  ELSE numberOf(SubSeq(ds, 1, Len(ds) - 1)) * 10
       + (CHOOSE n \in 0..9 : <<"0","1","2","3","4","5","6","7","8","9">>[n + 1] = ds[Len(ds)])

\* s.replace(/\\'/g, "'")
RECURSIVE unescapeQuotes(_)
unescapeQuotes(s) ==
  IF s = <<>> THEN <<>>
  ELSE IF hasAt(s, 1, <<"\\", "'">>) THEN <<"'">> \o unescapeQuotes(SubSeq(s, 3, Len(s)))
  ELSE <<Head(s)>> \o unescapeQuotes(Tail(s))

unquote(s) ==
  IF Len(s) >= 1 /\ s[1] = "'" /\ s[Len(s)] = "'"
    THEN unescapeQuotes(slice(s, 2, Len(s) - 1))
    ELSE s

nNullable == <<"N","u","l","l","a","b","l","e">>
nLowCardinality == <<"L","o","w","C","a","r","d","i","n","a","l","i","t","y">>
nArray == <<"A","r","r","a","y">>
nTuple == <<"T","u","p","l","e">>
nMap == <<"M","a","p">>
nEnum8 == <<"E","n","u","m","8">>
nEnum16 == <<"E","n","u","m","1","6">>
nDecimal == <<"D","e","c","i","m","a","l">>
nFixedString == <<"F","i","x","e","d","S","t","r","i","n","g">>
nDateTime == <<"D","a","t","e","T","i","m","e">>
nDateTime64 == <<"D","a","t","e","T","i","m","e","6","4">>
nDate == <<"D","a","t","e">>
nFloat32 == <<"F","l","o","a","t","3","2">>
nFloat64 == <<"F","l","o","a","t","6","4">>
nInt8 == <<"I","n","t","8">>
nInt16 == <<"I","n","t","1","6">>
nInt32 == <<"I","n","t","3","2">>
nInt64 == <<"I","n","t","6","4">>
nUInt8 == <<"U","I","n","t","8">>
nUInt16 == <<"U","I","n","t","1","6">>
nUInt32 == <<"U","I","n","t","3","2">>
nUInt64 == <<"U","I","n","t","6","4">>
nString == <<"S","t","r","i","n","g">>
nUUID == <<"U","U","I","D">>
nIPv4 == <<"I","P","v","4">>
nIPv6 == <<"I","P","v","6">>
nUnknown == <<"U","n","k","n","o","w","n">>

CanonicalNames ==
  {nNullable, nLowCardinality, nArray, nTuple, nMap, nEnum8, nEnum16,
   nDecimal, nFixedString, nDateTime, nDateTime64}

canonicalTypeName(name) ==
  LET n == toLowerCase(name)
      hits == {c \in CanonicalNames : toLowerCase(c) = n}
  IN IF hits # {} THEN CHOOSE c \in hits : TRUE
     ELSE IF name[1] \in UpperSet THEN name
     ELSE <<toUpperChar(name[1])>> \o Tail(name)

(* TypeAst = [name, args]; a TypeArg is a TypeAst, [num |-> n], [str |-> s]   *)
(* or the EnumMember [key, value].                                            *)
TypeNode(name, args) == [name |-> name, args |-> args]

RECURSIVE parseTypeExpr(_, _)
RECURSIVE parseTypeArg(_, _)
RECURSIVE parseTypeArgs(_, _, _)

\* do { args.push(parseTypeArg(name)) } while (tryMatch(Comma)); consumeToken(RParen)
parseTypeArgs(t, p, args) ==
  andThen(parseTypeArg(t, p), LAMBDA a :
    IF peekType(t, a.pos) = "Comma"
      THEN parseTypeArgs(t, a.pos + 1, Append(args, a.val))
      ELSE andThen(consumeToken(t, a.pos, "RParen"), LAMBDA c :
             Ok(c.pos, Append(args, a.val))))

parseTypeExpr(t, p) ==
  andThen(consumeToken(t, p, "Identifier"), LAMBDA id :
    bindTo(canonicalTypeName(id.val), LAMBDA name :
      IF peekType(t, id.pos) # "LParen" THEN Ok(id.pos, TypeNode(name, <<>>))
      ELSE IF peekType(t, id.pos + 1) = "RParen"
        THEN Ok(id.pos + 2, TypeNode(name, <<>>))
      ELSE andThen(parseTypeArgs(t, id.pos + 1, <<>>), LAMBDA as :
             Ok(as.pos, TypeNode(name, as.val)))))

parseTypeArg(t, p) ==
  bindTo(peekType(t, p), LAMBDA tt :
    IF tt = "EOF" THEN Throw(p, "Unexpected EOF")
    ELSE IF tt = "Identifier" THEN parseTypeExpr(t, p)
    ELSE IF tt = "StringLiteral" THEN
      bindTo(unquote(t[p].image), LAMBDA key :
        IF peekType(t, p + 1) = "Eq"
          THEN andThen(consumeToken(t, p + 2, "Integer"), LAMBDA v :
                 Ok(v.pos, [key |-> key, value |-> numberOf(v.val)]))
          ELSE Ok(p + 1, [str |-> key]))
    ELSE IF tt = "Integer" THEN Ok(p + 1, [num |-> numberOf(t[p].image)])
    ELSE Ok(p + 1, [str |-> t[p].image]))

RECURSIVE skipToColumnNameFrom(_, _, _)
skipToColumnNameFrom(t, p, startPos) ==
  IF isAtEnd(t, p) \/ peekType(t, p) = "Identifier" \/ peekType(t, p) = "RParen"
    THEN Ok(p, <<>>)
  ELSE IF (p + 1) - startPos > ColumnNameLimit
    THEN Throw(p + 1, "Column name search limit exceeded")
  ELSE skipToColumnNameFrom(t, p + 1, startPos)

skipToColumnName(t, p) == skipToColumnNameFrom(t, p, p)

\* val = [has, text]: the comment, when the COMMENT clause is present
parseOptionalComment(t, p) ==
  IF peekType(t, p) # "Comment" THEN Ok(p, [has |-> FALSE, text |-> <<>>])
  ELSE andThen(consumeToken(t, p + 1, "StringLiteral"), LAMBDA s :
         Ok(s.pos, [has |-> TRUE, text |-> unquote(s.val)]))

\* parts.join(" ")
RECURSIVE joinSpace(_)
joinSpace(parts) ==
  IF parts = <<>> THEN <<>>
  ELSE IF Len(parts) = 1 THEN Head(parts)
  ELSE Head(parts) \o <<" ">> \o joinSpace(Tail(parts))

\* one iteration of the while loop of parseOptionalDefault, on the loop state
\* [pos, err, val, done]; val is parts
defaultIteration(t, s, startPos) ==
  IF s.done THEN s
  ELSE IF peekType(t, s.pos) \in {"EOF", "Comma", "RParen"} THEN [s EXCEPT !.done = TRUE]
  ELSE IF (s.pos + 1) - startPos > DefaultLimit
    THEN [pos |-> s.pos + 1, err |-> "Default value parsing limit exceeded", val |-> <<>>,
          done |-> TRUE]
  ELSE [s EXCEPT !.pos = @ + 1, !.val = Append(@, t[s.pos].image)]

RECURSIVE defaultIterations(_, _, _, _)
defaultIterations(t, s, startPos, n) ==
  IF n = 0 THEN s
  ELSE IF n = 1 THEN defaultIteration(t, s, startPos)
  ELSE bindValue(defaultIterations(t, s, startPos, n \div 2), LAMBDA half :
         defaultIterations(t, half, startPos, n - (n \div 2)))

defaultFrom(t, p, startPos, parts) ==
  bindValue(defaultIterations(t, [pos |-> p, err |-> "", val |-> parts, done |-> FALSE],
                              startPos, Len(t) + 1),
            LAMBDA s : IF s.err # "" THEN Throw(s.pos, s.err)
                       ELSE Ok(s.pos, trim(joinSpace(s.val))))

parseOptionalDefault(t, p) ==
  IF peekType(t, p) # "Default" THEN Ok(p, [has |-> FALSE, text |-> <<>>])
  ELSE andThen(defaultFrom(t, p + 1, p + 1, <<>>), LAMBDA d :
         Ok(d.pos, [has |-> TRUE, text |-> d.val]))

RECURSIVE codecFrom(_, _, _)
codecFrom(t, p, startPos) ==
  IF peekType(t, p) = "RParen" THEN Ok(p + 1, <<>>)
  ELSE IF isAtEnd(t, p) THEN Throw(p, "Unterminated CODEC")
  ELSE IF (p + 1) - startPos > CodecLimit THEN Throw(p + 1, "CODEC parsing limit exceeded")
  ELSE codecFrom(t, p + 1, startPos)

parseOptionalCodec(t, p) ==
  IF peekType(t, p) # "Codec" THEN Ok(p, <<>>)
  ELSE andThen(consumeToken(t, p + 1, "LParen"), LAMBDA l : codecFrom(t, l.pos, l.pos))

\* tokens.slice(typeStart, typeEnd).map(image).join("")
rawTypeOf(t, from, to) == concat([i \in 1..(to - from) |-> t[from + i - 1].image])

\* ColumnAst = [name, type, rawType, comment, default]; an absent comment or
\* default is [has |-> FALSE, text |-> <<>>]
parseColumnDef(t, p) ==
  andThen(skipToColumnName(t, p), LAMBDA sk :
  andThen(consumeToken(t, sk.pos, "Identifier"), LAMBDA nameTok :
  andThen(parseTypeExpr(t, nameTok.pos), LAMBDA ty :
  andThen(parseOptionalComment(t, ty.pos), LAMBDA cm :
  andThen(parseOptionalDefault(t, cm.pos), LAMBDA df :
  andThen(parseOptionalCodec(t, df.pos), LAMBDA cd :
    Ok(cd.pos, [name |-> nameTok.val, type |-> ty.val,
                rawType |-> rawTypeOf(t, nameTok.pos, ty.pos),
                comment |-> cm.val, default |-> df.val])))))))

\* do { columns.push(parseColumnDef()) } while (tryMatch(Comma))
RECURSIVE parseColumnList(_, _, _)
parseColumnList(t, p, cols) ==
  andThen(parseColumnDef(t, p), LAMBDA c :
    IF peekType(t, c.pos) = "Comma"
      THEN parseColumnList(t, c.pos + 1, Append(cols, c.val))
      ELSE Ok(c.pos, Append(cols, c.val)))

parseOptionalColumns(t, p) ==
  IF peekType(t, p) # "LParen" THEN Ok(p, <<>>)
  ELSE IF peekType(t, p + 1) = "RParen" THEN Ok(p + 2, <<>>)
  ELSE andThen(parseColumnList(t, p + 1, <<>>), LAMBDA cs :
         IF peekType(t, cs.pos) = "RParen" THEN Ok(cs.pos + 1, cs.val)
         ELSE andThen(skipToToken(t, cs.pos, "RParen"), LAMBDA sk : Ok(sk.pos, cs.val)))

parseQualifiedName(t, p) ==
  andThen(consumeToken(t, p, "Identifier"), LAMBDA first :
    IF peekType(t, first.pos) = "Dot"
      THEN consumeToken(t, first.pos + 1, "Identifier")
      ELSE first)

\* returns val = TRUE for a materialized view
parseTableType(t, p) ==
  IF peekType(t, p) = "Materialized"
    THEN andThen(consumeToken(t, p + 1, "View"), LAMBDA v : Ok(v.pos, TRUE))
    ELSE andThen(consumeToken(t, p, "Table"), LAMBDA tb : Ok(tb.pos, FALSE))

parseOptionalIfNotExists(t, p) ==
  IF peekType(t, p) # "If" THEN p
  ELSE tryMatch(t, tryMatch(t, p + 1, "Not"), "Exists")

parseOptionalEngine(t, p) ==
  IF peekType(t, p) # "Engine" THEN Ok(p, <<>>)
  ELSE bindTo(tryMatch(t, tryMatch(t, p + 1, "Eq"), "Identifier"), LAMBDA p2 :
         IF peekType(t, p2) = "LParen" THEN skipBalancedParens(t, p2 + 1)
         ELSE Ok(p2, <<>>))

\* s.replace(/;\s*$/, "")
stripTrailingSemi(s) ==
  LET semis == {i \in 1..Len(s) :
                  s[i] = ";" /\ \A j \in (i + 1)..Len(s) : isSpace(s[j])}
  IN IF semis = {} THEN s
     ELSE slice(s, 1, (CHOOSE i \in semis : \A j \in semis : i <= j) - 1)

RECURSIVE captureFrom(_, _, _, _, _)
captureFrom(t, p, startPos, stoppers, parts) ==
  IF isAtEnd(t, p) \/ peekType(t, p) \in stoppers
    THEN Ok(p, stripTrailingSemi(trim(concat(parts))))
  ELSE IF (p + 1) - startPos > CaptureLimit
    THEN Throw(p + 1, "Expression capture limit exceeded")
  ELSE captureFrom(t, p + 1, startPos, stoppers, Append(parts, t[p].image))

captureExpressionUntil(t, p, stoppers) == captureFrom(t, p, p, stoppers, <<>>)

Absent == [has |-> FALSE, text |-> <<>>]
Present(s) == [has |-> TRUE, text |-> s]

parseOptionalPartitionBy(t, p) ==
  IF peekType(t, p) # "Partition" THEN Ok(p, Absent)
  ELSE andThen(consumeToken(t, p + 1, "By"), LAMBDA b :
       andThen(captureExpressionUntil(t, b.pos, {"Order"}), LAMBDA e :
         Ok(e.pos, Present(e.val))))

parseOptionalOrderBy(t, p) ==
  IF peekType(t, p) # "Order" THEN Ok(p, Absent)
  ELSE andThen(consumeToken(t, p + 1, "By"), LAMBDA b :
       andThen(captureExpressionUntil(t, b.pos, {"As"}), LAMBDA e :
         Ok(e.pos, Present(e.val))))

\* An undefined alias, srcName, func, mvFrom or src is the empty string <<>>
\* (the parser only produces non-empty identifiers).
NoCte == [has |-> FALSE, name |-> <<>>, src |-> <<>>, columns |-> <<>>]

parseCTEBlockOnly(t, p) ==
  andThen(consumeToken(t, p, "Identifier"), LAMBDA n :
  andThen(consumeToken(t, n.pos, "As"), LAMBDA a :
  andThen(consumeToken(t, a.pos, "LParen"), LAMBDA l :
  andThen(skipParensFrom(t, l.pos, l.pos, 1, CteContentLimit), LAMBDA sk :
    Ok(sk.pos, [has |-> TRUE, name |-> n.val, src |-> <<>>, columns |-> <<>>])))))

RECURSIVE skipWithFrom(_, _, _, _)
skipWithFrom(t, p, startPos, depth) ==
  IF isAtEnd(t, p) THEN Ok(p, <<>>)
  ELSE IF peekType(t, p) = "LParen" THEN skipWithFrom(t, p + 1, startPos, depth + 1)
  ELSE IF peekType(t, p) = "RParen"
    THEN skipWithFrom(t, p + 1, startPos, Max(0, depth - 1) )
  ELSE IF peekType(t, p) = "Select" /\ depth = 0 THEN Ok(p, <<>>)
  ELSE IF (p + 1) - startPos > WithLimit
    THEN Throw(p + 1, "WITH expressions parsing limit exceeded")
  ELSE skipWithFrom(t, p + 1, startPos, depth)

skipWithNamedExpressions(t, p) == skipWithFrom(t, p, p, 0)

\* val = the first plain identifier argument, <<>> when none is found
\* one iteration of the while loop of parseFirstFunctionArg, on the loop state
\* [pos, err, val, depth, done]; val is srcName
firstArgIteration(t, s, startPos) ==
  IF s.done THEN s
  ELSE IF isAtEnd(t, s.pos) \/ s.depth = 0 THEN [s EXCEPT !.done = TRUE]
  ELSE IF peekType(t, s.pos) = "LParen" THEN [s EXCEPT !.pos = @ + 1, !.depth = @ + 1]
  ELSE IF peekType(t, s.pos) = "RParen" THEN [s EXCEPT !.pos = @ + 1, !.depth = @ - 1]
  ELSE IF peekType(t, s.pos) = "Identifier" THEN
    IF peekType(t, s.pos + 1) = "LParen" THEN [s EXCEPT !.pos = @ + 1]
    ELSE IF peekType(t, s.pos + 1) = "Dot" THEN
      bindTo(consumeToken(t, s.pos + 2, "Identifier"), LAMBDA in :
        IF in.err # ""
          THEN [pos |-> in.pos, err |-> in.err, val |-> <<>>, depth |-> s.depth,
                done |-> TRUE]
          ELSE [s EXCEPT !.pos = in.pos, !.val = IF @ = <<>> THEN in.val ELSE @])
    ELSE [s EXCEPT !.pos = @ + 1, !.val = IF @ = <<>> THEN t[s.pos].image ELSE @]
  ELSE IF (s.pos + 1) - startPos > FuncArgLimit
    THEN [pos |-> s.pos + 1, err |-> "Function argument parsing limit exceeded",
          val |-> <<>>, depth |-> s.depth, done |-> TRUE]
  ELSE [s EXCEPT !.pos = @ + 1]

RECURSIVE firstArgIterations(_, _, _, _)
firstArgIterations(t, s, startPos, n) ==
  IF n = 0 THEN s
  ELSE IF n = 1 THEN firstArgIteration(t, s, startPos)
  ELSE bindValue(firstArgIterations(t, s, startPos, n \div 2), LAMBDA half :
         firstArgIterations(t, half, startPos, n - (n \div 2)))

firstArgFrom(t, p, startPos, depth, srcName) ==
  bindValue(firstArgIterations(t, [pos |-> p, err |-> "", val |-> srcName, depth |-> depth,
                                   done |-> FALSE], startPos, Len(t) + 1),
            LAMBDA s : [pos |-> s.pos, err |-> s.err, val |-> s.val])

parseFirstFunctionArg(t, p) == firstArgFrom(t, p, p, 1, <<>>)

\* select item = [name, alias, srcName, func]
parseSelectItem(t, p) ==
  andThen(consumeToken(t, p, "Identifier"), LAMBDA id1 :
  andThen(IF peekType(t, id1.pos) = "Dot"
            THEN consumeToken(t, id1.pos + 1, "Identifier")
            ELSE id1, LAMBDA id2 :
  bindTo(peekType(t, id2.pos) = "LParen", LAMBDA isCall :
  andThen(IF isCall THEN parseFirstFunctionArg(t, id2.pos + 1)
          ELSE Ok(id2.pos, <<>>), LAMBDA arg :
  andThen(IF peekType(t, arg.pos) = "As"
            THEN consumeToken(t, arg.pos + 1, "Identifier")
            ELSE Ok(arg.pos, <<>>), LAMBDA al :
    Ok(al.pos, [name |-> id2.val, alias |-> al.val,
                srcName |-> IF arg.val # <<>> THEN arg.val ELSE id2.val,
                func |-> IF isCall THEN id1.val ELSE <<>>]))))))

\* variant without the final state.position++: a token that is neither a comma nor an
\* identifier is looked at again in the next iteration
selectListIteration_NoSkip(t, s) ==
  IF s.done THEN s
  ELSE IF isAtEnd(t, s.pos) \/ ~(Len(s.val) < maxItems) THEN [s EXCEPT !.done = TRUE]
  ELSE IF peekType(t, s.pos) = "From" THEN [s EXCEPT !.done = TRUE]
  ELSE IF peekType(t, s.pos) = "Comma" THEN [s EXCEPT !.pos = @ + 1]
  ELSE IF peekType(t, s.pos) = "Identifier" THEN
    bindTo(parseSelectItem(t, s.pos), LAMBDA it :
      IF it.err # "" THEN [pos |-> it.pos, err |-> it.err, val |-> <<>>, done |-> TRUE]
      ELSE [s EXCEPT !.pos = it.pos, !.val = Append(@, it.val)])
  ELSE s

\* one iteration of the while loop of parseSelectList.  The loop state is
\* [pos, err, val, done]: the cursor, the Error thrown, the items, whether the loop
\* was left
selectListIteration(t, s) ==
  IF s.done THEN s
  ELSE IF isAtEnd(t, s.pos) \/ ~(Len(s.val) < maxItems) THEN [s EXCEPT !.done = TRUE]
  ELSE IF peekType(t, s.pos) = "From" THEN [s EXCEPT !.done = TRUE]
  ELSE IF peekType(t, s.pos) = "Comma" THEN [s EXCEPT !.pos = @ + 1]
  ELSE IF peekType(t, s.pos) = "Identifier" THEN
    bindTo(parseSelectItem(t, s.pos), LAMBDA it :
      IF it.err # "" THEN [pos |-> it.pos, err |-> it.err, val |-> <<>>, done |-> TRUE]
      ELSE [s EXCEPT !.pos = it.pos, !.val = Append(@, it.val)])
  ELSE [s EXCEPT !.pos = @ + 1]

\* the loop state after at most n iterations; a state that has left the loop stays
\* as it is.  The first half of the iterations is computed before the second half
\* starts.
RECURSIVE selectListIterations(_, _, _)
selectListIterations(t, s, n) ==
  IF n = 0 THEN s
  ELSE IF n = 1 THEN selectListIteration(t, s)
  ELSE bindValue(selectListIterations(t, s, n \div 2), LAMBDA half :
         selectListIterations(t, half, n - (n \div 2)))

\* every iteration that stays in the loop moves the cursor, so the loop is left
\* after at most one iteration per remaining token and one more
selectListFrom(t, p, items) ==
  bindTo(selectListIterations(t, [pos |-> p, err |-> "", val |-> items, done |-> FALSE],
                              Len(t) + 1),
         LAMBDA s : [pos |-> s.pos, err |-> s.err, val |-> s.val])

parseSelectList(t, p) == selectListFrom(t, p, <<>>)

UnknownType == TypeNode(nUnknown, <<>>)

\* TableAst = [name, columns, partitionBy, orderBy, isMv, mvFrom, mvSelect, mvCte];
\* isMv tells whether mvFrom, mvSelect and mvCte are set at all
parseMaterializedViewBody(t, p, name, partitionBy, orderBy) ==
  andThen(IF peekType(t, p) = "As" THEN Ok(p + 1, <<>>)
          ELSE skipToToken(t, p, "As"), LAMBDA a :
  andThen(IF peekType(t, a.pos) # "With" THEN Ok(a.pos, NoCte)
          ELSE IF /\ peekType(t, a.pos + 1) = "Identifier"
                  /\ peekType(t, a.pos + 2) = "As"
                  /\ peekType(t, a.pos + 3) = "LParen"
            THEN parseCTEBlockOnly(t, a.pos + 1)
          ELSE andThen(skipWithNamedExpressions(t, a.pos + 1), LAMBDA sk :
                 Ok(sk.pos, NoCte)), LAMBDA w :
  andThen(IF peekType(t, w.pos) # "Select" THEN skipToToken(t, w.pos, "Select")
          ELSE Ok(w.pos, <<>>), LAMBDA s1 :
  andThen(parseSelectList(t, tryMatch(t, s1.pos, "Select")), LAMBDA sel :
  andThen(IF peekType(t, sel.pos) = "From"
            THEN parseQualifiedName(t, sel.pos + 1)
            ELSE Ok(sel.pos, <<>>), LAMBDA src :
    Ok(src.pos,
       [name |-> name,
        columns |-> [i \in 1..Len(sel.val) |->
           [name |-> IF sel.val[i].alias # <<>> THEN sel.val[i].alias
                     ELSE sel.val[i].name,
            type |-> UnknownType, rawType |-> nUnknown,
            comment |-> Absent, default |-> Absent]],
        partitionBy |-> partitionBy, orderBy |-> orderBy,
        isMv |-> TRUE, mvFrom |-> src.val, mvSelect |-> sel.val, mvCte |-> w.val]))))))

createTable(t, p) ==
  andThen(consumeToken(t, p, "Create"), LAMBDA c :
  andThen(parseTableType(t, c.pos), LAMBDA mv :
  andThen(parseQualifiedName(t, parseOptionalIfNotExists(t, mv.pos)), LAMBDA n :
  andThen(parseOptionalColumns(t, n.pos), LAMBDA cols :
  andThen(parseOptionalEngine(t, cols.pos), LAMBDA en :
  andThen(parseOptionalPartitionBy(t, en.pos), LAMBDA pb :
  andThen(parseOptionalOrderBy(t, pb.pos), LAMBDA ob :
    IF mv.val /\ Len(cols.val) = 0
      THEN parseMaterializedViewBody(t, ob.pos, n.val, pb.val, ob.val)
      ELSE Ok(ob.pos, [name |-> n.val, columns |-> cols.val,
                       partitionBy |-> pb.val, orderBy |-> ob.val,
                       isMv |-> FALSE, mvFrom |-> <<>>, mvSelect |-> <<>>,
                       mvCte |-> NoCte]))))))))

\* while (!p.isAtEnd() && peekToken(state)?.tokenType !== Create) state.position++
skipToCreate(t, p) ==
  IF isAtEnd(t, p) THEN p
  ELSE bindValue({q \in p..Len(t) : peekType(t, q) = "Create"}, LAMBDA stops :
         IF stops = {} THEN Len(t) + 1 ELSE CHOOSE q \in stops : \A r \in stops : q <= r)

\* one iteration of the while loop of parse, on the loop state [pos, val, done]: a
\* statement that throws is dropped and the scan resumes from the token where it
\* threw
parseIteration(t, s) ==
  IF s.done THEN s
  ELSE IF isAtEnd(t, s.pos) \/ ~(Len(s.val) < maxTables) THEN [s EXCEPT !.done = TRUE]
  ELSE bindTo(skipToCreate(t, s.pos), LAMBDA q :
         IF isAtEnd(t, q) THEN [s EXCEPT !.pos = q]
         ELSE bindTo(createTable(t, q), LAMBDA r :
                IF r.err = "" THEN [s EXCEPT !.pos = r.pos, !.val = Append(@, r.val)]
                ELSE [s EXCEPT !.pos = skipToCreate(t, r.pos)]))

RECURSIVE parseIterations(_, _, _)
parseIterations(t, s, n) ==
  IF n = 0 THEN s
  ELSE IF n = 1 THEN parseIteration(t, s)
  ELSE bindValue(parseIterations(t, s, n \div 2), LAMBDA half :
         parseIterations(t, half, n - (n \div 2)))

\* the while loop of parse: every iteration that stays in the loop moves the cursor
\* past a CREATE token or to the end, so one iteration per CREATE token and two more
\* are enough to leave it
parseLoop(t, p, acc) ==
  parseIterations(t, [pos |-> p, val |-> acc, done |-> FALSE],
                  Cardinality({q \in 1..Len(t) : peekType(t, q) = "Create"}) + 2).val

\* parse of parser.ts from createParserState on: [err, val]
parseTokens(tokens) ==
  IF ~(Len(tokens) <= TokenLimit)
    THEN [err |-> "Token count exceeds safety limit", val |-> <<>>]
  ELSE [err |-> "", val |-> parseLoop(tokens, 1, <<>>)]

\* parse of parser.ts (imported by index.ts as _parse): [err, val]
_parse(ddl) ==
  bindTo(tokenize(ddl), LAMBDA lex :
    IF lex.errors > 0 THEN [err |-> "Lexing failed", val |-> <<>>]
    ELSE parseTokens(lex.tokens))

-----------------------------------------------------------------------------
(* index.ts: the public parse: statement filter, splitter, per-statement   *)
(* parsing with recovery.                                                  *)

MAX_DDL_LENGTH == 10000000
MAX_STATEMENTS == 1000
MAX_STATEMENT_LENGTH == 100000
MAX_TABLES == 1000
MAX_HEAD_LENGTH == 200

kwCreate == <<"c","r","e","a","t","e">>
kwView == <<"v","i","e","w">>
kwMaterialized == <<"m","a","t","e","r","i","a","l","i","z","e","d">>

RECURSIVE map_trim(_)
map_trim(ss) == IF ss = <<>> THEN <<>> ELSE <<trim(Head(ss))>> \o map_trim(Tail(ss))

\* variant that keeps the white space around each piece
splitDdlBysemicolon_Untrimmed(input) == filterNonEmpty(splitSemi(input))

splitDdlBysemicolon(input) == filterNonEmpty(map_trim(splitSemi(input)))

extractStatementHead(statement) ==
  toLowerCase(slice(statement, 1, Min(Len(statement), MAX_HEAD_LENGTH)))

\* position after \s+ matched from i, 0 when no whitespace character stands at i
spacesPlus(s, i) ==
  IF i <= Len(s) /\ isSpace(s[i])
    THEN CHOOSE e \in (i + 1)..(Len(s) + 1) :
           /\ \A k \in i..(e - 1) : isSpace(s[k])
           /\ (e > Len(s) \/ ~isSpace(s[e]))
    ELSE 0

\* /^create\s+view/.test(head)
isRegularView(head) ==
  /\ hasAt(head, 1, kwCreate)
  /\ spacesPlus(head, 7) # 0
  /\ hasAt(head, spacesPlus(head, 7), kwView)

\* /^create\s+materialized\s+view/.test(head)
isMaterializedView(head) ==
  /\ hasAt(head, 1, kwCreate)
  /\ spacesPlus(head, 7) # 0
  /\ hasAt(head, spacesPlus(head, 7), kwMaterialized)
  /\ LET j == spacesPlus(head, 7) + 12
     IN spacesPlus(head, j) # 0 /\ hasAt(head, spacesPlus(head, j), kwView)

\* /(\s|\))w\s+/.test(s)
hasRoutingWord(s, w) ==
  \E i \in 1..Len(s) :
    /\ isSpace(s[i]) \/ s[i] = ")"
    /\ hasAt(s, i + 1, w)
    /\ i + Len(w) + 1 <= Len(s)
    /\ isSpace(s[i + Len(w) + 1])

isRoutingMaterializedView(statement) ==
  bindTo(toLowerCase(statement), LAMBDA lowerStatement :
    hasRoutingWord(lowerStatement, <<"t","o">>)
    \/ hasRoutingWord(lowerStatement, <<"f","o","r">>))

shouldKeepStatement(statement) ==
  bindTo(extractStatementHead(statement), LAMBDA head :
    IF isRegularView(head) THEN FALSE
    ELSE IF isMaterializedView(head) THEN ~isRoutingMaterializedView(statement)
    ELSE TRUE)

RECURSIVE keepFrom(_, _, _)
keepFrom(parts, i, partCount) ==
  IF i > partCount THEN <<>>
  ELSE IF Len(parts[i]) > 0 /\ shouldKeepStatement(parts[i])
    THEN <<parts[i]>> \o keepFrom(parts, i + 1, partCount)
  ELSE keepFrom(parts, i + 1, partCount)

filterSupportedStatements(parts) ==
  keepFrom(parts, 1, Min(Len(parts), MAX_STATEMENTS))

filterStatements(input) ==
  bindTo(filterSupportedStatements(splitDdlBysemicolon(input)), LAMBDA filteredParts :
    IF Len(filteredParts) > 0 THEN joinSemiNl(filteredParts) \o <<";">> ELSE <<>>)

splitStatements(input) ==
  bindTo(filterNonEmpty(map_trim(splitSemi(input))), LAMBDA ps :
    [i \in 1..Len(ps) |-> ps[i] \o <<";">>])

\* one iteration of the loop of parseStatements: the tables statement i adds
\* try { tables.push(..._parse(statement)) } catch { continue }: what a statement adds,
\* r being what _parse did
pushOrContinue(r) == IF r.err = "" THEN r.val ELSE <<>>

statementTables(statement) ==
  IF Len(statement) > 0 /\ Len(statement) <= MAX_STATEMENT_LENGTH
    THEN pushOrContinue(_parse(statement))
    ELSE <<>>

\* variant without the try/catch: the loop ends at the first statement that throws
RECURSIVE parseStatementsFrom_NoRecovery(_, _, _)
parseStatementsFrom_NoRecovery(statements, i, statementCount) ==
  IF i > statementCount THEN <<>>
  ELSE IF _parse(statements[i]).err # "" THEN <<>>
  ELSE statementTables(statements[i])
         \o parseStatementsFrom_NoRecovery(statements, i + 1, statementCount)

RECURSIVE parseStatementsFrom(_, _, _)
parseStatementsFrom(statements, i, statementCount) ==
  IF i > statementCount THEN <<>>
  ELSE statementTables(statements[i]) \o parseStatementsFrom(statements, i + 1, statementCount)

parseStatements(statements) ==
  parseStatementsFrom(statements, 1, Min(Len(statements), MAX_STATEMENTS))

\* parse of index.ts: [err, val]
parse(ddl) ==
  IF ~(Len(ddl) <= MAX_DDL_LENGTH) THEN [err |-> "DDL too long", val |-> <<>>]
  ELSE bindTo(splitStatements(filterStatements(ddl)), LAMBDA statements :
         IF Len(statements) = 0 THEN [err |-> "", val |-> <<>>]
         ELSE [err |-> "", val |-> parseStatements(statements)])

-----------------------------------------------------------------------------
(* mapping.ts: mapTypeAstToTs.  A TypeScript type is the string (character *)
(* sequence) the source builds; a call returns [err, ts], err = "" when it *)
(* returns and otherwise the kind of Error it throws.                      *)

\* variant with the ceiling one level further down
MAX_TYPE_DEPTH_Deeper == 20 + 1

MAX_TYPE_DEPTH == 20
MAX_ENUM_KEYS == 1000
MAX_TUPLE_ELEMENTS == 100
maxPlugins == 50

tsNumber ==
  <<"n","u","m","b","e","r">>
tsString ==
  <<"s","t","r","i","n","g">>
tsBigint ==
  <<"b","i","g","i","n","t">>
tsDecimal ==
  <<"D","e","c","i","m","a","l">>
tsDate ==
  <<"D","a","t","e">>
tsUnknown ==
  <<"u","n","k","n","o","w","n">>
tsOrNull ==
  <<" ","|"," ","n","u","l","l">>
tsArray ==
  <<"[","]">>
tsRecordOpen ==
  <<"R","e","c","o","r","d","<","s","t","r","i","n","g",","," ">>
tsOr ==
  <<" ","|"," ">>
\* ast-utils.ts
isTypeAst(arg) == DOMAIN arg = {"name", "args"}
toTypeOrUnknown(arg) == IF isTypeAst(arg) THEN arg ELSE UnknownType
firstTypeArg(t) == IF Len(t.args) >= 1 THEN toTypeOrUnknown(t.args[1]) ELSE UnknownType
secondTypeArg(t) == IF Len(t.args) >= 2 THEN toTypeOrUnknown(t.args[2]) ELSE UnknownType

TsOk(ts) == [err |-> "", ts |-> ts]
TsThrow(kind) == [err |-> kind, ts |-> <<>>]

\* String(i) for a tuple position
RECURSIVE digitsOf(_)
digitsOf(n) ==
  IF n < 10 THEN <<<<"0","1","2","3","4","5","6","7","8","9">>[n + 1]>>
  ELSE digitsOf(n \div 10) \o digitsOf(n % 10)

\* MappingOptions = [int64As, decimal, datetimeAs, camelCase, failOnUnknown, plugins];
\* int64As is "bigint" or "string", decimal "string" or "decimal.js", datetimeAs
\* "string" or "Date".  A plugin is [names, ts]: its mapType returns the string ts
\* for the type names in names and undefined for every other type.
validTypeAst(type) ==
  /\ Len(type.name) > 0
  /\ Len(type.args) <= MAX_TUPLE_ELEMENTS

validMappingOptions(options) ==
  /\ options.int64As \in {"bigint", "string"}
  /\ options.decimal \in {"string", "decimal.js"}
  /\ options.datetimeAs \in {"string", "Date"}

\* val = [defined, ts]: the first string a plugin returns, in list order
RECURSIVE tryPluginFrom(_, _, _, _)
tryPluginFrom(type, plugins, i, n) ==
  IF i > n THEN [defined |-> FALSE, ts |-> <<>>]
  ELSE IF type.name \in plugins[i].names THEN [defined |-> TRUE, ts |-> plugins[i].ts]
  ELSE tryPluginFrom(type, plugins, i + 1, n)

tryPluginMapping(type, options) ==
  tryPluginFrom(type, options.plugins, 1, Min(Len(options.plugins), maxPlugins))

\* s.replace(/'/g, "\\'")
RECURSIVE escapeStringLiteral(_)
escapeStringLiteral(str) ==
  IF str = <<>> THEN <<>>
  ELSE (IF Head(str) = "'" THEN <<"\\", "'">> ELSE <<Head(str)>>)
       \o escapeStringLiteral(Tail(str))

RECURSIVE extractEnumKeysFrom(_, _, _)
extractEnumKeysFrom(args, i, maxKeys) ==
  IF i > maxKeys THEN <<>>
  ELSE (IF DOMAIN args[i] = {"key", "value"} /\ Len(args[i].key) > 0
          THEN <<args[i].key>> ELSE <<>>)
       \o extractEnumKeysFrom(args, i + 1, maxKeys)

extractEnumKeys(args) == extractEnumKeysFrom(args, 1, Min(Len(args), MAX_ENUM_KEYS))

\* quotedKeys.join(" | ")
RECURSIVE joinQuoted(_)
joinQuoted(keys) ==
  IF keys = <<>> THEN <<>>
  ELSE <<"'">> \o escapeStringLiteral(Head(keys)) \o <<"'">>
       \o (IF Len(keys) = 1 THEN <<>> ELSE tsOr \o joinQuoted(Tail(keys)))

mapEnumType(type) ==
  LET keys == extractEnumKeys(type.args)
  IN IF Len(keys) = 0 THEN tsString ELSE joinQuoted(keys)

mapDecimalType(options) == IF options.decimal = "decimal.js" THEN tsDecimal ELSE tsString
mapBigIntType(options) == IF options.int64As = "bigint" THEN tsBigint ELSE tsString
mapDateTimeType(options) == IF options.datetimeAs = "Date" THEN tsDate ELSE tsString

handleUnknownType(name, options) ==
  IF options.failOnUnknown THEN TsThrow("Unknown type") ELSE TsOk(tsUnknown)

RECURSIVE mapTypeAstToTs(_, _, _)
RECURSIVE mapCoreType(_, _, _)
RECURSIVE mapTupleFrom(_, _, _, _, _)

mapNullableType(type, options, depth) ==
  LET inner == mapTypeAstToTs(firstTypeArg(type), options, depth + 1)
  IN IF inner.err # "" THEN inner ELSE TsOk(inner.ts \o tsOrNull)

mapLowCardinalityType(type, options, depth) ==
  mapTypeAstToTs(firstTypeArg(type), options, depth + 1)

mapArrayType(type, options, depth) ==
  LET inner == mapTypeAstToTs(firstTypeArg(type), options, depth + 1)
  IN IF inner.err # "" THEN inner ELSE TsOk(inner.ts \o tsArray)

\* the loop of mapTupleType: val = the parts `_${i}: ${argType};`, in order
mapTupleFrom(type, options, depth, i, argCount) ==
  IF i >= argCount THEN [err |-> "", parts |-> <<>>]
  ELSE LET a == mapTypeAstToTs(toTypeOrUnknown(type.args[i + 1]), options, depth + 1)
       IN IF a.err # "" THEN [err |-> a.err, parts |-> <<>>]
          ELSE LET rest == mapTupleFrom(type, options, depth, i + 1, argCount)
               IN IF rest.err # "" THEN rest
                  ELSE [err |-> "",
                        parts |-> <<<<"_">> \o digitsOf(i) \o <<":", " ">> \o a.ts \o <<";">>>>
                                  \o rest.parts]

mapTupleType(type, options, depth) ==
  LET r == mapTupleFrom(type, options, depth, 0, Min(Len(type.args), MAX_TUPLE_ELEMENTS))
  IN IF r.err # "" THEN TsThrow(r.err)
     ELSE TsOk(<<"{", " ">> \o joinSpace(r.parts) \o <<" ", "}">>)

mapMapType(type, options, depth) ==
  LET v == mapTypeAstToTs(secondTypeArg(type), options, depth + 1)
  IN IF v.err # "" THEN v ELSE TsOk(tsRecordOpen \o v.ts \o <<">">>)

mapCoreType(type, options, depth) ==
  LET name == type.name
  IN IF name = nNullable THEN mapNullableType(type, options, depth)
     ELSE IF name = nLowCardinality THEN mapLowCardinalityType(type, options, depth)
     ELSE IF name = nArray THEN mapArrayType(type, options, depth)
     ELSE IF name = nTuple THEN mapTupleType(type, options, depth)
     ELSE IF name = nMap THEN mapMapType(type, options, depth)
     ELSE IF name \in {nEnum8, nEnum16} THEN TsOk(mapEnumType(type))
     ELSE IF name = nDecimal THEN TsOk(mapDecimalType(options))
     ELSE IF name \in {nFloat32, nFloat64, nInt8, nInt16, nInt32, nUInt8, nUInt16, nUInt32}
       THEN TsOk(tsNumber)
     ELSE IF name \in {nInt64, nUInt64} THEN TsOk(mapBigIntType(options))
     ELSE IF name \in {nString, nUUID, nFixedString, nIPv4, nIPv6} THEN TsOk(tsString)
     ELSE IF name \in {nDate, nDateTime, nDateTime64} THEN TsOk(mapDateTimeType(options))
     ELSE handleUnknownType(name, options)

mapTypeAstToTs(type, options, depth) ==
  IF depth > MAX_TYPE_DEPTH THEN TsThrow("Type mapping depth exceeded")
  ELSE IF ~validTypeAst(type) THEN TsThrow("Invalid TypeAst")
  ELSE IF ~validMappingOptions(options) THEN TsThrow("Invalid MappingOptions")
  ELSE LET pluginResult == tryPluginMapping(type, options)
       IN IF pluginResult.defined /\ pluginResult.ts # <<>> THEN TsOk(pluginResult.ts)
          ELSE mapCoreType(type, options, depth)

-----------------------------------------------------------------------------
(* types.ts: identifier casing                                             *)

\* input.replace(/[_-]+([a-zA-Z0-9])/g, (_, c) => c.toUpperCase())
RECURSIVE camelReplace(_)
camelReplace(s) ==
  IF s = <<>> THEN <<>>
  ELSE IF Head(s) \in {"_", "-"} THEN
    LET notSep(c) == c \notin {"_", "-"}
        e == runEnd(s, 1, notSep)
    IN IF e <= Len(s) /\ isAlnum(s[e])
         THEN <<toUpperChar(s[e])>> \o camelReplace(slice(s, e + 1, Len(s)))
         ELSE slice(s, 1, e - 1) \o camelReplace(slice(s, e, Len(s)))
  ELSE <<Head(s)>> \o camelReplace(Tail(s))

toCamelCase(input) ==
  bindTo(camelReplace(input), LAMBDA r :
    IF r # <<>> /\ r[1] \in UpperSet THEN <<toLowerChar(r[1])>> \o Tail(r) ELSE r)

toPascalCase(input) ==
  bindTo(toCamelCase(input), LAMBDA camel :
    IF camel = <<>> THEN <<>> ELSE <<toUpperChar(camel[1])>> \o Tail(camel))

-----------------------------------------------------------------------------
(* mapping.ts: map, with the inference of materialized-view column types   *)

MAX_COLUMNS_PER_TABLE == 10000
MAX_SELECT_ITEMS == 1000
MAX_CTE_COLUMNS == 1000

fnToFloat ==
  <<"t","o","f","l","o","a","t">>
fnToInt ==
  <<"t","o","i","n","t">>
fnToUInt ==
  <<"t","o","u","i","n","t">>
fnToDecimal ==
  <<"t","o","d","e","c","i","m","a","l">>
fnToStartOfDay ==
  <<"t","o","s","t","a","r","t","o","f","d","a","y">>
fnSum ==
  <<"s","u","m">>
fnAvg ==
  <<"a","v","g">>
fnCount ==
  <<"c","o","u","n","t">>
fnAnyLast ==
  <<"a","n","y","l","a","s","t">>
fnAnyState ==
  <<"a","n","y","s","t","a","t","e">>
fnMax ==
  <<"m","a","x">>
fnMin ==
  <<"m","i","n">>
fnArgMin ==
  <<"a","r","g","m","i","n">>
fnArgMax ==
  <<"a","r","g","m","a","x">>

\* an optional value: [has, val]
None == [has |-> FALSE, val |-> <<>>]
Some(v) == [has |-> TRUE, val |-> v]

\* Array.prototype.find: the first element satisfying the test
findFirst(seq, Test(_)) ==
  bindTo({i \in 1..Len(seq) : Test(seq[i])}, LAMBDA hits :
    IF hits = {} THEN None ELSE Some(seq[CHOOSE i \in hits : \A j \in hits : i <= j]))

findTableByName(tbls, name) ==
  bindTo(findFirst(tbls, LAMBDA tb : tb.name = name), LAMBDA exactMatch :
    IF exactMatch.has THEN exactMatch
    ELSE findFirst(tbls, LAMBDA tb : toPascalCase(tb.name) = toPascalCase(name)))

findColumnByName(table, name) ==
  bindTo(findFirst(table.columns, LAMBDA c : c.name = name), LAMBDA exactMatch :
    IF exactMatch.has THEN exactMatch
    ELSE findFirst(table.columns, LAMBDA c : toCamelCase(c.name) = toCamelCase(name)))

\* Map.get after the loop of Map.set calls: the entry of the last item, among the
\* first `count`, whose key is `key`
lastWithKey(items, count, Key(_), key) ==
  bindTo({i \in 1..count : Key(items[i]) # <<>> /\ Key(items[i]) = key}, LAMBDA hits :
    IF hits = {} THEN None ELSE Some(items[CHOOSE i \in hits : \A j \in hits : j <= i]))

outputName(item) == IF item.alias # <<>> THEN item.alias ELSE item.name

\* buildAliasMap(table).get(key): alias -> srcName ?? name
aliasMapGet(table, key) ==
  bindTo(lastWithKey(table.mvSelect, Min(Len(table.mvSelect), MAX_SELECT_ITEMS),
                     LAMBDA item : item.alias, key), LAMBDA e :
    IF e.has THEN Some(IF e.val.srcName # <<>> THEN e.val.srcName ELSE e.val.name)
    ELSE None)

\* buildMvInfoMap(table).get(key): alias ?? name -> [func, src]
mvInfoMapGet(table, key) ==
  bindTo(lastWithKey(table.mvSelect, Min(Len(table.mvSelect), MAX_SELECT_ITEMS),
                     outputName, key), LAMBDA e :
    IF e.has THEN Some([func |-> e.val.func, src |-> e.val.srcName]) ELSE None)

\* buildCteAliasMap(table).get(key): alias ?? name -> [func, src]
cteAliasMapGet(table, key) ==
  bindTo(lastWithKey(table.mvCte.columns, Min(Len(table.mvCte.columns), MAX_CTE_COLUMNS),
                     outputName, key), LAMBDA e :
    IF e.has
      THEN Some([func |-> e.val.func,
                 src |-> IF e.val.srcName # <<>> THEN e.val.srcName ELSE e.val.name])
      ELSE None)

\* createMappingContext: the two tables looked up by name
sourceTableOf(table, allTables) ==
  IF table.mvFrom # <<>> THEN findTableByName(allTables, table.mvFrom) ELSE None

cteSourceTableOf(table, allTables) ==
  IF table.mvCte.has /\ table.mvCte.src # <<>>
    THEN findTableByName(allTables, table.mvCte.src) ELSE None

mapFuncToType(funcName) ==
  bindTo(trim(toLowerCase(funcName)), LAMBDA normalizedFunc :
    IF startsWith(normalizedFunc, fnToFloat) THEN TypeNode(nFloat64, <<>>)
    ELSE IF startsWith(normalizedFunc, fnToInt) THEN TypeNode(nInt64, <<>>)
    ELSE IF startsWith(normalizedFunc, fnToUInt) THEN TypeNode(nUInt64, <<>>)
    ELSE IF startsWith(normalizedFunc, fnToDecimal) THEN TypeNode(nDecimal, <<>>)
    ELSE IF normalizedFunc = fnToStartOfDay THEN TypeNode(nDateTime, <<>>)
    ELSE UnknownType)

\* variant that does not know sum
isNumericAggregate_NoSum(funcName) ==
  startsWith(funcName, fnAvg) \/ startsWith(funcName, fnCount)

isNumericAggregate(funcName) ==
  startsWith(funcName, fnSum) \/ startsWith(funcName, fnAvg) \/ startsWith(funcName, fnCount)

isStatePreservingAggregate(funcName) ==
  \/ startsWith(funcName, fnAnyLast) \/ startsWith(funcName, fnAnyState)
  \/ startsWith(funcName, fnMax) \/ startsWith(funcName, fnMin)
  \/ startsWith(funcName, fnArgMin) \/ startsWith(funcName, fnArgMax)

\* variant in which the state-preserving aggregates widen to Float64 as well
resolveAggReturnType_Widening(funcName, baseType) ==
  IF funcName = <<>> THEN baseType
  ELSE bindTo(trim(toLowerCase(funcName)), LAMBDA normalizedFunc :
         IF normalizedFunc = fnToStartOfDay THEN Some(TypeNode(nDateTime, <<>>))
         ELSE IF isNumericAggregate(normalizedFunc) \/ isStatePreservingAggregate(normalizedFunc)
            THEN Some(TypeNode(nFloat64, <<>>))
         ELSE baseType)

\* variant in which an item without function name has no type of its own
resolveAggReturnType_NoPassthrough(funcName, baseType) ==
  IF funcName = <<>> THEN None
  ELSE bindTo(trim(toLowerCase(funcName)), LAMBDA normalizedFunc :
         IF normalizedFunc = fnToStartOfDay THEN Some(TypeNode(nDateTime, <<>>))
         ELSE IF isNumericAggregate(normalizedFunc) THEN Some(TypeNode(nFloat64, <<>>))
         ELSE IF isStatePreservingAggregate(normalizedFunc)
           THEN (IF baseType.has THEN baseType ELSE Some(TypeNode(nFloat64, <<>>)))
         ELSE baseType)

\* funcName = <<>> is the undefined function name; baseType is an optional TypeAst
resolveAggReturnType(funcName, baseType) ==
  IF funcName = <<>> THEN baseType
  ELSE bindTo(trim(toLowerCase(funcName)), LAMBDA normalizedFunc :
         IF normalizedFunc = fnToStartOfDay THEN Some(TypeNode(nDateTime, <<>>))
         ELSE IF isNumericAggregate(normalizedFunc) THEN Some(TypeNode(nFloat64, <<>>))
         ELSE IF isStatePreservingAggregate(normalizedFunc)
           THEN (IF baseType.has THEN baseType ELSE Some(TypeNode(nFloat64, <<>>)))
         ELSE baseType)

resolveCTEBaseType(cteInfo, cteSourceTable) ==
  bindTo(IF cteInfo.func # <<>> THEN mapFuncToType(cteInfo.func) ELSE UnknownType,
         LAMBDA funcType :
    IF funcType.name # nUnknown THEN Some(funcType)
    ELSE IF cteInfo.src # <<>> /\ cteSourceTable.has
      THEN bindTo(findColumnByName(cteSourceTable.val, cteInfo.src), LAMBDA sourceColumn :
             IF sourceColumn.has THEN Some(sourceColumn.val.type) ELSE None)
    ELSE None)

StringResolved == Some([type |-> TypeNode(nString, <<>>), rawType |-> nString])

\* val = [type, rawType] when a type is resolved
resolveFromCTE(column, table, allTables) ==
  bindTo(mvInfoMapGet(table, column.name), LAMBDA mvInfo :
    IF ~mvInfo.has THEN StringResolved
    ELSE
      bindTo(IF mvInfo.val.src # <<>> THEN cteAliasMapGet(table, mvInfo.val.src) ELSE None,
             LAMBDA cteInfo :
      bindTo(IF cteInfo.has
               THEN resolveCTEBaseType(cteInfo.val, cteSourceTableOf(table, allTables))
               ELSE None, LAMBDA baseType :
      bindTo(resolveAggReturnType(mvInfo.val.func, baseType), LAMBDA resolvedType :
        IF resolvedType.has
          THEN Some([type |-> resolvedType.val, rawType |-> resolvedType.val.name])
        ELSE IF mvInfo.val.func = <<>> THEN StringResolved
        ELSE None))))

resolveFromSourceTable(column, table, sourceTable) ==
  bindTo(aliasMapGet(table, column.name), LAMBDA aliasedName :
  bindTo(findColumnByName(sourceTable,
                          IF aliasedName.has /\ aliasedName.val # <<>>
                            THEN aliasedName.val ELSE column.name), LAMBDA sourceColumn :
    IF sourceColumn.has
      THEN Some([type |-> sourceColumn.val.type, rawType |-> sourceColumn.val.rawType])
      ELSE None))

resolveUnknownType(column, table, allTables) ==
  bindTo(sourceTableOf(table, allTables), LAMBDA sourceTable :
    IF sourceTable.has THEN resolveFromSourceTable(column, table, sourceTable.val)
    ELSE resolveFromCTE(column, table, allTables))

\* variant that looks the column up under its cased name
mapSingleColumn_CasedLookup(column, table, allTables, options) ==
  bindTo(IF options.camelCase THEN toCamelCase(column.name) ELSE column.name, LAMBDA name :
  bindTo(IF column.type.name = nUnknown
           THEN resolveUnknownType([column EXCEPT !.name = name], table, allTables)
           ELSE None, LAMBDA resolved :
  bindTo(IF resolved.has THEN resolved.val.type ELSE column.type, LAMBDA resolvedType :
  bindTo(IF resolved.has THEN resolved.val.rawType ELSE column.rawType, LAMBDA rawType :
  bindTo(mapTypeAstToTs(resolvedType, options, 0), LAMBDA ts :
    IF ts.err # "" THEN [err |-> ts.err, val |-> <<>>]
    ELSE [err |-> "",
          val |-> [name |-> name, tsType |-> ts.ts, chType |-> trim(rawType),
                   typeAst |-> resolvedType, comment |-> column.comment]])))))

\* [err, val]; val = the mapped column [name, tsType, chType, typeAst, comment]
mapSingleColumn(column, table, allTables, options) ==
  bindTo(IF column.type.name = nUnknown
           THEN resolveUnknownType(column, table, allTables) ELSE None, LAMBDA resolved :
  bindTo(IF resolved.has THEN resolved.val.type ELSE column.type, LAMBDA resolvedType :
  bindTo(IF resolved.has THEN resolved.val.rawType ELSE column.rawType, LAMBDA rawType :
  bindTo(mapTypeAstToTs(resolvedType, options, 0), LAMBDA ts :
    IF ts.err # "" THEN [err |-> ts.err, val |-> <<>>]
    ELSE [err |-> "",
          val |-> [name |-> IF options.camelCase THEN toCamelCase(column.name)
                            ELSE column.name,
                   tsType |-> ts.ts, chType |-> trim(rawType),
                   typeAst |-> resolvedType, comment |-> column.comment]]))))

validColumn(column) == Len(column.name) > 0

\* variant with a memo of one entry: the string mapped for a column is kept for the
\* columns after it
RECURSIVE mapTableColumns_StickyMemo(_, _, _, _)
mapTableColumns_StickyMemo(table, i, allTables, options) ==
  IF i > Len(table.columns) THEN [err |-> "", val |-> <<>>]
  ELSE IF ~validColumn(table.columns[i]) THEN [err |-> "Invalid ColumnAst", val |-> <<>>]
  ELSE andThen(mapSingleColumn(table.columns[i], table, allTables, options), LAMBDA c :
       andThen(mapTableColumns_StickyMemo(table, i + 1, allTables, options), LAMBDA rest :
         [err |-> "",
          val |-> <<c.val>> \o [k \in 1..Len(rest.val) |->
                                  [rest.val[k] EXCEPT !.tsType = c.val.tsType]]]))

RECURSIVE mapTableColumns(_, _, _, _)
mapTableColumns(table, i, allTables, options) ==
  IF i > Len(table.columns) THEN [err |-> "", val |-> <<>>]
  ELSE IF ~validColumn(table.columns[i]) THEN [err |-> "Invalid ColumnAst", val |-> <<>>]
  ELSE andThen(mapSingleColumn(table.columns[i], table, allTables, options), LAMBDA c :
       andThen(mapTableColumns(table, i + 1, allTables, options), LAMBDA rest :
         [err |-> "", val |-> <<c.val>> \o rest.val]))

\* [err, val]; val = the MappedTable [interfaceName, columns, meta]
mapSingleTable(table, allTables, options) ==
  andThen(mapTableColumns(table, 1, allTables, options), LAMBDA cols :
    [err |-> "",
     val |-> [interfaceName |-> toPascalCase(table.name), columns |-> cols.val,
              meta |-> [partitionBy |-> table.partitionBy,
                        orderBy |-> table.orderBy]]])

validTableArray(tbls) ==
  \A i \in 1..Len(tbls) :
    /\ Len(tbls[i].name) > 0
    /\ Len(tbls[i].columns) <= MAX_COLUMNS_PER_TABLE

RECURSIVE mapTablesFrom(_, _, _)
mapTablesFrom(tbls, i, options) ==
  IF i > Len(tbls) THEN [err |-> "", val |-> <<>>]
  ELSE andThen(mapSingleTable(tbls[i], tbls, options), LAMBDA m :
       andThen(mapTablesFrom(tbls, i + 1, options), LAMBDA rest :
         [err |-> "", val |-> <<m.val>> \o rest.val]))

\* map of mapping.ts: [err, val]
map(tbls, options) ==
  IF ~(Len(tbls) <= MAX_TABLES) THEN [err |-> "Too many tables", val |-> <<>>]
  ELSE IF ~validTableArray(tbls) THEN [err |-> "Invalid TableAst", val |-> <<>>]
  ELSE mapTablesFrom(tbls, 1, options)

-----------------------------------------------------------------------------
(* emitter.ts: emit, the interface renderer, called with emitZod off.  The *)
(* source file ts-morph prints is kept as its parts: the imports, the type *)
(* aliases and the interface declarations, in the order they are added.    *)

MAX_COLUMNS == 1000
MAX_SCHEMA_DEPTH == 20
MAX_TABLES_JsonSchema == 100

\* U+2014, written as an atom
EMDASH == "\\u2014"

tsIPv4 ==
  <<"I","P","v","4">>
tsIPv6 ==
  <<"I","P","v","6">>
docOriginal ==
  <<"O","r","i","g","i","n","a","l",":"," ">>

validateColumnForEmission(column) == Len(column.name) > 0

validateTableForEmission(table) ==
  /\ Len(table.interfaceName) > 0
  /\ Len(table.columns) <= MAX_COLUMNS
  /\ \A i \in 1..Len(table.columns) : validateColumnForEmission(table.columns[i])

validateEmissionInput(tbls) ==
  /\ Len(tbls) <= MAX_TABLES
  /\ \A i \in 1..Len(tbls) : validateTableForEmission(tbls[i])

\* some column within the limits has the mapped type ts
needs(tbls, ts) ==
  \E i \in 1..Min(Len(tbls), MAX_TABLES) :
    \E j \in 1..Min(Len(tbls[i].columns), MAX_COLUMNS) : tbls[i].columns[j].tsType = ts

analyzeDependencies(tbls) ==
  [needsIPv4 |-> needs(tbls, tsIPv4), needsIPv6 |-> needs(tbls, tsIPv6),
   needsDecimal |-> needs(tbls, tsDecimal), needsZod |-> FALSE]

addImports(dependencies) ==
  IF dependencies.needsDecimal THEN <<"decimal.js">> ELSE <<>>

addTypeAliases(dependencies) ==
  (IF dependencies.needsIPv4 THEN <<tsIPv4>> ELSE <<>>)
  \o (IF dependencies.needsIPv6 THEN <<tsIPv6>> ELSE <<>>)

createPropertyDocumentation(column) ==
  IF column.comment.has /\ column.comment.text # <<>>
    THEN docOriginal \o column.chType \o <<" ", EMDASH, " ">> \o column.comment.text
    ELSE docOriginal \o column.chType

\* variant that leaves out the last column
createInterfaceProperties_DropLast(table) ==
  [i \in 1..(Min(Len(table.columns), MAX_COLUMNS) - 1) |->
     [name |-> table.columns[i].name, type |-> table.columns[i].tsType,
      docs |-> createPropertyDocumentation(table.columns[i]), hasQuestionToken |-> FALSE]]

createInterfaceProperties(table) ==
  [i \in 1..Min(Len(table.columns), MAX_COLUMNS) |->
     [name |-> table.columns[i].name, type |-> table.columns[i].tsType,
      docs |-> createPropertyDocumentation(table.columns[i]), hasQuestionToken |-> FALSE]]

addSingleTableInterface(table) ==
  [isExported |-> TRUE, name |-> table.interfaceName,
   properties |-> createInterfaceProperties(table)]

addTableInterfaces(tbls) ==
  [i \in 1..Min(Len(tbls), MAX_TABLES) |-> addSingleTableInterface(tbls[i])]

\* emit(mappedTables, { emitZod: false }): [err, val]
emit(mappedTables) ==
  IF ~validateEmissionInput(mappedTables) THEN [err |-> "Invalid emission input", val |-> <<>>]
  ELSE bindTo(analyzeDependencies(mappedTables), LAMBDA dependencies :
         [err |-> "",
          val |-> [imports |-> addImports(dependencies),
                   aliases |-> addTypeAliases(dependencies),
                   interfaces |-> addTableInterfaces(mappedTables)]])

-----------------------------------------------------------------------------
(* json-schema.ts: emitJsonSchema.  A schema is the object the source      *)
(* builds, as a record; an object keyed by names of the input (properties) *)
(* is the sequence of its [key, value] entries in the order JSON.stringify *)
(* writes them.  formatJsonSchema, which prints the object and puts its    *)
(* required array on one line, changes the layout only.                    *)

createStringSchema == [type |-> "string"]
createNumberSchema == [type |-> "number"]
\* the object {}
createUnknownSchema == [any |-> TRUE]
createEmptySchema == [any |-> TRUE]

\* /\bw\b/.test(s)
hasWord(s, w) ==
  \E i \in 1..Len(s) :
    /\ hasAt(s, i, w)
    /\ i = 1 \/ ~isWordChar(s[i - 1])
    /\ i + Len(w) > Len(s) \/ ~isWordChar(s[i + Len(w)])

mapBigIntSchema(resolvedTs) ==
  IF hasWord(resolvedTs, tsBigint) THEN [type |-> "integer"] ELSE [type |-> "string"]

mapDateTimeSchema(resolvedTs) ==
  IF hasWord(resolvedTs, tsDate) THEN [type |-> "string", format |-> "date-time"]
  ELSE [type |-> "string"]

extractEnumKeysForSchema(args) == extractEnumKeysFrom(args, 1, Min(Len(args), MAX_ENUM_KEYS))

mapEnumSchema(type) ==
  bindTo(extractEnumKeysForSchema(type.args), LAMBDA keys :
    IF Len(keys) = 0 THEN createStringSchema ELSE [type |-> "string", enum |-> keys])

validateTypeInput(type) == Len(type.name) > 0

SchemaOk(s) == [err |-> "", val |-> s]

RECURSIVE jsonSchemaForType(_, _, _)
RECURSIVE mapTupleSchemaFrom(_, _, _, _, _)

mapNullableSchema(type, resolvedTs, depth) ==
  andThen(jsonSchemaForType(firstTypeArg(type), resolvedTs, depth + 1), LAMBDA innerSchema :
    SchemaOk([anyOf |-> <<innerSchema.val, [type |-> "null"]>>]))

mapLowCardinalitySchema(type, resolvedTs, depth) ==
  jsonSchemaForType(firstTypeArg(type), resolvedTs, depth + 1)

mapArraySchema(type, resolvedTs, depth) ==
  andThen(jsonSchemaForType(firstTypeArg(type), resolvedTs, depth + 1), LAMBDA itemsSchema :
    SchemaOk([type |-> "array", items |-> itemsSchema.val]))

\* the loop of mapTupleSchema: val = the values of the properties _0, _1, ..., in order
mapTupleSchemaFrom(type, resolvedTs, depth, i, elementCount) ==
  IF i >= elementCount THEN SchemaOk(<<>>)
  ELSE andThen(jsonSchemaForType(toTypeOrUnknown(type.args[i + 1]), resolvedTs, depth + 1),
         LAMBDA a :
       andThen(mapTupleSchemaFrom(type, resolvedTs, depth, i + 1, elementCount), LAMBDA rest :
         SchemaOk(<<[key |-> <<"_">> \o digitsOf(i), value |-> a.val]>> \o rest.val)))

mapTupleSchema(type, resolvedTs, depth) ==
  andThen(mapTupleSchemaFrom(type, resolvedTs, depth, 0,
                             Min(Len(type.args), MAX_TUPLE_ELEMENTS)), LAMBDA properties :
    SchemaOk([type |-> "object", properties |-> properties.val,
              additionalProperties |-> FALSE]))

mapMapSchema(type, resolvedTs, depth) ==
  andThen(jsonSchemaForType(secondTypeArg(type), resolvedTs, depth + 1), LAMBDA valueSchema :
    SchemaOk([type |-> "object", additionalProperties |-> valueSchema.val]))

mapTypeToJsonSchema(type, resolvedTs, depth) ==
  bindTo(type.name, LAMBDA typeName :
    IF typeName = nNullable THEN mapNullableSchema(type, resolvedTs, depth)
    ELSE IF typeName = nLowCardinality THEN mapLowCardinalitySchema(type, resolvedTs, depth)
    ELSE IF typeName = nArray THEN mapArraySchema(type, resolvedTs, depth)
    ELSE IF typeName = nTuple THEN mapTupleSchema(type, resolvedTs, depth)
    ELSE IF typeName = nMap THEN mapMapSchema(type, resolvedTs, depth)
    ELSE IF typeName \in {nEnum8, nEnum16} THEN SchemaOk(mapEnumSchema(type))
    ELSE IF typeName = nDecimal THEN SchemaOk(createStringSchema)
    ELSE IF typeName \in {nFloat32, nFloat64, nInt8, nInt16, nInt32, nUInt8, nUInt16, nUInt32}
      THEN SchemaOk(createNumberSchema)
    ELSE IF typeName \in {nInt64, nUInt64} THEN SchemaOk(mapBigIntSchema(resolvedTs))
    ELSE IF typeName \in {nString, nUUID, nFixedString, nIPv4, nIPv6}
      THEN SchemaOk(createStringSchema)
    ELSE IF typeName \in {nDate, nDateTime, nDateTime64}
      THEN SchemaOk(mapDateTimeSchema(resolvedTs))
    ELSE SchemaOk(createUnknownSchema))

jsonSchemaForType(type, resolvedTs, depth) ==
  IF depth > MAX_SCHEMA_DEPTH
    THEN [err |-> "JSON Schema generation depth exceeded", val |-> <<>>]
  ELSE IF ~validateTypeInput(type) THEN [err |-> "Type name cannot be empty", val |-> <<>>]
  ELSE mapTypeToJsonSchema(type, resolvedTs, depth)

validateColumnStructure(column) == Len(column.name) > 0

validateTableStructure(table) ==
  /\ Len(table.interfaceName) > 0
  /\ Len(table.columns) <= MAX_COLUMNS
  /\ \A i \in 1..Len(table.columns) : validateColumnStructure(table.columns[i])

\* properties[key] = value on an object: a key it has keeps its place
putProperty(properties, key, value) ==
  IF \E k \in 1..Len(properties) : properties[k].key = key
    THEN [k \in 1..Len(properties) |->
            IF properties[k].key = key THEN [key |-> key, value |-> value]
            ELSE properties[k]]
    ELSE Append(properties, [key |-> key, value |-> value])

RECURSIVE generateColumnPropertiesFrom(_, _, _, _)
generateColumnPropertiesFrom(columns, i, columnCount, properties) ==
  IF i > columnCount THEN SchemaOk(properties)
  ELSE IF Len(columns[i].name) = 0
    THEN generateColumnPropertiesFrom(columns, i + 1, columnCount, properties)
  ELSE andThen(jsonSchemaForType(columns[i].typeAst, columns[i].tsType, 0), LAMBDA s :
         generateColumnPropertiesFrom(columns, i + 1, columnCount,
                                      putProperty(properties, columns[i].name, s.val)))

generateColumnProperties(columns) ==
  generateColumnPropertiesFrom(columns, 1, Min(Len(columns), MAX_COLUMNS), <<>>)

RECURSIVE extractRequiredFieldsFrom(_, _, _)
extractRequiredFieldsFrom(columns, i, columnCount) ==
  IF i > columnCount THEN <<>>
  ELSE (IF Len(columns[i].name) > 0 THEN <<columns[i].name>> ELSE <<>>)
       \o extractRequiredFieldsFrom(columns, i + 1, columnCount)

extractRequiredFields(columns) ==
  extractRequiredFieldsFrom(columns, 1, Min(Len(columns), MAX_COLUMNS))

generateTableSchema(table) ==
  andThen(generateColumnProperties(table.columns), LAMBDA properties :
    SchemaOk([title |-> table.interfaceName, type |-> "object",
              properties |-> properties.val, additionalProperties |-> FALSE,
              required |-> extractRequiredFields(table.columns)]))

\* variant that renders the last table instead of the first
emitJsonSchema_LastTable(mappedTables) ==
  IF ~(Len(mappedTables) <= MAX_TABLES_JsonSchema)
    THEN [err |-> "Too many tables", val |-> <<>>]
  ELSE IF Len(mappedTables) = 0 THEN SchemaOk(<<createEmptySchema>>)
  ELSE IF ~validateTableStructure(mappedTables[Len(mappedTables)])
    THEN [err |-> "Invalid table", val |-> <<>>]
  ELSE andThen(generateTableSchema(mappedTables[Len(mappedTables)]), LAMBDA schema :
         SchemaOk(<<schema.val>>))

\* emitJsonSchema(mappedTables): [err, val]; val = the root documents of the text it
\* returns, in order (the text "{}" of an empty input is one document, the empty object)
emitJsonSchema(mappedTables) ==
  IF ~(Len(mappedTables) <= MAX_TABLES_JsonSchema)
    THEN [err |-> "Too many tables", val |-> <<>>]
  ELSE IF Len(mappedTables) = 0 THEN SchemaOk(<<createEmptySchema>>)
  ELSE IF ~validateTableStructure(mappedTables[1])
    THEN [err |-> "Invalid table", val |-> <<>>]
  ELSE andThen(generateTableSchema(mappedTables[1]), LAMBDA schema :
         SchemaOk(<<schema.val>>))

-----------------------------------------------------------------------------
(* emitter.ts: the validator schemas emit adds with emitZod on.  A schema   *)
(* is the initializer text the source builds.                              *)

MAX_ZOD_DEPTH == 20

zString ==
  <<"z",".","s","t","r","i","n","g","(",")">>
zNumber ==
  <<"z",".","n","u","m","b","e","r","(",")">>
zAny ==
  <<"z",".","a","n","y","(",")">>
zBigint ==
  <<"z",".","b","i","g","i","n","t","(",")">>
zDate ==
  <<"z",".","d","a","t","e","(",")">>
zNullable ==
  <<".","n","u","l","l","a","b","l","e","(",")">>
zArrayOpen ==
  <<"z",".","a","r","r","a","y","(">>
zObjectOpen ==
  <<"z",".","o","b","j","e","c","t","(","{"," ">>
zObjectClose ==
  <<" ","}",")">>
zRecordOpen ==
  <<"z",".","r","e","c","o","r","d","(","z",".","s","t","r","i","n","g","(",")",","," ">>
zEnumOpen ==
  <<"z",".","e","n","u","m","(","[">>
zEnumClose ==
  <<"]",")">>

createStringZodSchema == zString
createNumberZodSchema == zNumber
createAnyZodSchema == zAny

mapBigIntZodSchema(resolvedTsType) ==
  IF hasWord(resolvedTsType, tsBigint) THEN zBigint ELSE zString

mapDateTimeZodSchema(resolvedTsType) ==
  IF hasWord(resolvedTsType, tsDate) THEN zDate ELSE zString

escapeZodEnumKey(key) == <<"'">> \o escapeStringLiteral(key) \o <<"'">>

extractEnumKeysForZod(args) == extractEnumKeysFrom(args, 1, Min(Len(args), MAX_ENUM_KEYS))

\* parts.join(sep)
RECURSIVE joinWith(_, _)
joinWith(parts, sep) ==
  IF parts = <<>> THEN <<>>
  ELSE IF Len(parts) = 1 THEN parts[1]
  ELSE parts[1] \o sep \o joinWith(Tail(parts), sep)

mapEnumZodSchema(type) ==
  bindTo(extractEnumKeysForZod(type.args), LAMBDA keys :
    IF Len(keys) = 0 THEN createStringZodSchema
    ELSE zEnumOpen \o joinWith([k \in 1..Len(keys) |-> escapeZodEnumKey(keys[k])], <<",", " ">>)
           \o zEnumClose)

validateZodTypeInput(type) == Len(type.name) > 0

ZodOk(s) == [err |-> "", val |-> s]

RECURSIVE zodForTypeAst(_, _, _)
RECURSIVE mapTupleZodFrom(_, _, _, _, _)

\* the entries `_i: schema` of the tuple elements i .. elementCount - 1
mapTupleZodFrom(type, resolvedTsType, depth, i, elementCount) ==
  IF i >= elementCount THEN ZodOk(<<>>)
  ELSE andThen(zodForTypeAst(toTypeOrUnknown(type.args[i + 1]), resolvedTsType, depth + 1),
               LAMBDA a :
       andThen(mapTupleZodFrom(type, resolvedTsType, depth, i + 1, elementCount), LAMBDA rest :
         ZodOk(<<<<"_">> \o digitsOf(i) \o <<":", " ">> \o a.val>> \o rest.val)))

mapNullableZodSchema(type, resolvedTsType, depth) ==
  andThen(zodForTypeAst(firstTypeArg(type), resolvedTsType, depth + 1), LAMBDA inner :
    ZodOk(inner.val \o zNullable))

mapLowCardinalityZodSchema(type, resolvedTsType, depth) ==
  zodForTypeAst(firstTypeArg(type), resolvedTsType, depth + 1)

mapArrayZodSchema(type, resolvedTsType, depth) ==
  andThen(zodForTypeAst(firstTypeArg(type), resolvedTsType, depth + 1), LAMBDA inner :
    ZodOk(zArrayOpen \o inner.val \o <<")">>))

mapTupleZodSchema(type, resolvedTsType, depth) ==
  andThen(mapTupleZodFrom(type, resolvedTsType, depth, 0,
                          Min(Len(type.args), MAX_TUPLE_ELEMENTS)), LAMBDA entries :
    ZodOk(zObjectOpen \o joinWith(entries.val, <<",", " ">>) \o zObjectClose))

mapMapZodSchema(type, resolvedTsType, depth) ==
  andThen(zodForTypeAst(secondTypeArg(type), resolvedTsType, depth + 1), LAMBDA value :
    ZodOk(zRecordOpen \o value.val \o <<")">>))

mapTypeToZodSchema(type, resolvedTsType, depth) ==
  CASE type.name = nNullable -> mapNullableZodSchema(type, resolvedTsType, depth)
    [] type.name = nLowCardinality -> mapLowCardinalityZodSchema(type, resolvedTsType, depth)
    [] type.name = nArray -> mapArrayZodSchema(type, resolvedTsType, depth)
    [] type.name = nTuple -> mapTupleZodSchema(type, resolvedTsType, depth)
    [] type.name = nMap -> mapMapZodSchema(type, resolvedTsType, depth)
    [] type.name \in {nEnum8, nEnum16} -> ZodOk(mapEnumZodSchema(type))
    [] type.name = nDecimal -> ZodOk(createStringZodSchema)
    [] type.name \in {nFloat32, nFloat64, nInt8, nInt16, nInt32, nUInt8, nUInt16, nUInt32}
         -> ZodOk(createNumberZodSchema)
    [] type.name \in {nInt64, nUInt64} -> ZodOk(mapBigIntZodSchema(resolvedTsType))
    [] type.name \in {nString, nUUID, nFixedString, nIPv4, nIPv6}
         -> ZodOk(createStringZodSchema)
    [] type.name \in {nDate, nDateTime, nDateTime64}
         -> ZodOk(mapDateTimeZodSchema(resolvedTsType))
    [] OTHER -> ZodOk(createAnyZodSchema)

zodForTypeAst(type, resolvedTsType, depth) ==
  IF depth > MAX_ZOD_DEPTH
    THEN [err |-> "Zod schema generation depth exceeded", val |-> <<>>]
  ELSE IF ~validateZodTypeInput(type) THEN [err |-> "Type name cannot be empty", val |-> <<>>]
  ELSE mapTypeToZodSchema(type, resolvedTsType, depth)

\* [err, val]; val = the entries [name, schema] of the columns, in order
RECURSIVE createZodPropertyEntriesFrom(_, _, _)
createZodPropertyEntriesFrom(table, i, columnCount) ==
  IF i > columnCount THEN ZodOk(<<>>)
  ELSE andThen(zodForTypeAst(table.columns[i].typeAst, table.columns[i].tsType, 0), LAMBDA z :
       andThen(createZodPropertyEntriesFrom(table, i + 1, columnCount), LAMBDA rest :
         ZodOk(<<[name |-> table.columns[i].name, schema |-> z.val]>> \o rest.val)))

createZodPropertyEntries(table) ==
  createZodPropertyEntriesFrom(table, 1, Min(Len(table.columns), MAX_COLUMNS))

addSingleTableZodSchema(table) ==
  andThen(createZodPropertyEntries(table), LAMBDA zodEntries :
    ZodOk([isExported |-> TRUE, name |-> table.interfaceName \o <<"S","c","h","e","m","a">>,
           entries |-> zodEntries.val]))

\* the schema declarations emit(mappedTables, { emitZod: true }) adds, one per table
RECURSIVE addTableZodSchemasFrom(_, _, _)
addTableZodSchemasFrom(tbls, i, tableCount) ==
  IF i > tableCount THEN ZodOk(<<>>)
  ELSE andThen(addSingleTableZodSchema(tbls[i]), LAMBDA z :
       andThen(addTableZodSchemasFrom(tbls, i + 1, tableCount), LAMBDA rest :
         ZodOk(<<z.val>> \o rest.val)))

\* emit(mappedTables, { emitZod: true }): [err, val]; val as emit's, with the zod
\* import first and the schema declarations
emitWithZod(mappedTables) ==
  IF ~validateEmissionInput(mappedTables) THEN [err |-> "Invalid emission input", val |-> <<>>]
  ELSE bindTo(analyzeDependencies(mappedTables), LAMBDA dependencies :
       andThen(addTableZodSchemasFrom(mappedTables, 1, Min(Len(mappedTables), MAX_TABLES)),
               LAMBDA schemas :
         [err |-> "",
          val |-> [imports |-> <<"zod">> \o addImports(dependencies),
                   aliases |-> addTypeAliases(dependencies),
                   interfaces |-> addTableInterfaces(mappedTables),
                   schemas |-> schemas.val]]))

-----------------------------------------------------------------------------
(* The DDL inputs: statements drawn from a catalogue of statement bodies,  *)
(* each optionally preceded by text the lexer skips.                       *)

stTable ==
  <<"C","R","E","A","T","E"," ","T","A","B","L","E"," ","t"," ","(","a"," ","I","n","t","8",")">>
stOpen ==
  <<"C","R","E","A","T","E"," ","T","A","B","L","E"," ","u"," ","(","b"," ","S","t","r","i","n",
    "g">>
stBad ==
  <<"C","R","E","A","T","E"," ","T","A","B","L","E"," ","(","c"," ","I","n","t","8",")">>
stDrop ==
  <<"D","R","O","P"," ","T","A","B","L","E"," ","t">>
stView ==
  <<"C","R","E","A","T","E"," ","V","I","E","W"," ","v"," ","A","S"," ","S","E","L","E","C","T",
    " ","a"," ","F","R","O","M"," ","t">>
stRouting ==
  <<"C","R","E","A","T","E"," ","M","A","T","E","R","I","A","L","I","Z","E","D"," ","V","I","E",
    "W"," ","r"," ","T","O"," ","t"," ","A","S"," ","S","E","L","E","C","T"," ","a"," ","F","R",
    "O","M"," ","t">>
stMv ==
  <<"C","R","E","A","T","E"," ","M","A","T","E","R","I","A","L","I","Z","E","D"," ","V","I","E",
    "W"," ","m"," ","A","S"," ","S","E","L","E","C","T"," ","a"," ","F","R","O","M"," ","t">>
stMvNote ==
  <<"C","R","E","A","T","E"," ","M","A","T","E","R","I","A","L","I","Z","E","D"," ","V","I","E",
    "W"," ","n"," ","A","S"," ","S","E","L","E","C","T"," ","a"," ","/","*"," ","t","o"," ","x",
    " ","*","/"," ","F","R","O","M"," ","t">>
stMvCte ==
  <<"C","R","E","A","T","E"," ","M","A","T","E","R","I","A","L","I","Z","E","D"," ","V","I","E",
    "W"," ","w"," ","A","S"," ","W","I","T","H"," ","c"," ","A","S"," ","(","S","E","L","E","C",
    "T"," ","a"," ","F","R","O","M"," ","t",")"," ","S","E","L","E","C","T"," ","a"," ","F","R",
    "O","M"," ","c">>
\* a column definition with a vertical tab between the name and the type
stTabbed ==
  <<"C","R","E","A","T","E"," ","T","A","B","L","E"," ","x"," ","(","a",VT,"I","n","t","8",")">>
preNone ==
  <<>>
preLine ==
  <<"-","-"," ","c","\n">>
preBlock ==
  <<"/","*"," ","c"," ","*","/"," ">>

Bodies == <<stTable, stOpen, stBad, stDrop, stView, stRouting, stMv, stMvNote, stMvCte,
           stTabbed>>
\* what each body is: the statement kind and the name it declares
BodyKind == <<"table", "table", "malformed", "other", "view", "routing", "mv", "mv", "mv",
             "unlexable">>
Prefixes == <<preNone, preLine, preBlock>>

\* the text of one statement, as it stands between two ';' of the input
statementText(st) == Prefixes[st.pre] \o Bodies[st.body]

RECURSIVE ddlOf(_)
ddlOf(ss) ==
  IF ss = <<>> THEN <<>>
  ELSE statementText(Head(ss)) \o <<";", "\n">> \o ddlOf(Tail(ss))

MaxStmts == 2

-----------------------------------------------------------------------------
(* Specification of parse: the input is built statement by statement, then *)
(* parse runs on it.                                                       *)

InitParse ==
  /\ pc = "input"
  /\ stmts = <<>> /\ kept = <<>> /\ tables = <<>>
  /\ wraps = <<>> /\ leaf = <<>> /\ opts = <<>> /\ typeRes = <<>>
  /\ asts = <<>> /\ mapped = <<>>
  /\ out = <<>>

AddStatement(pre, body) ==
  /\ pc = "input"
  /\ Len(stmts) < MaxStmts
  /\ stmts' = Append(stmts, [pre |-> pre, body |-> body])
  /\ UNCHANGED <<pc, kept, tables, wraps, leaf, opts, typeRes, asts, mapped, out>>

\* parse(ddl); kept records what the statement filter let through on the way
Parse ==
  /\ pc = "input"
  /\ pc' = "parsed"
  /\ kept' = filterSupportedStatements(splitDdlBysemicolon(ddlOf(stmts)))
  /\ tables' = parse(ddlOf(stmts)).val
  /\ UNCHANGED <<stmts, wraps, leaf, opts, typeRes, asts, mapped, out>>

NextParse ==
  \/ \E pre \in 1..Len(Prefixes), body \in 1..Len(Bodies) : AddStatement(pre, body)
  \/ Parse

SpecParse == InitParse /\ [][NextParse]_vars

-----------------------------------------------------------------------------
(* Type expressions as inputs: a chain of wrappers around a leaf           *)

nFoo ==
  <<"F","o","o">>
txOpen ==
  <<"(">>
txClose ==
  <<")">>
txComma ==
  <<","," ">>
txColumnHead ==
  <<"C","R","E","A","T","E"," ","T","A","B","L","E"," ","t"," ","(","a"," ">>
txColumnTail ==
  <<")",";">>
tsPlugged ==
  <<"P">>

MaxNest == 22

WrapKinds == {"Array", "Nullable", "LowCardinality", "Tuple", "MapValue", "MapKey", "Other"}
Leaves == {nInt8, nFoo, nArray}

\* the TypeAst of the chain: ws holds the wrapper kinds, outermost first
RECURSIVE astOf(_, _)
astOf(ws, lf) ==
  IF ws = <<>> THEN TypeNode(lf, <<>>)
  ELSE LET inner == astOf(Tail(ws), lf)
       IN CASE Head(ws) = "Array" -> TypeNode(nArray, <<inner>>)
            [] Head(ws) = "Nullable" -> TypeNode(nNullable, <<inner>>)
            [] Head(ws) = "LowCardinality" -> TypeNode(nLowCardinality, <<inner>>)
            [] Head(ws) = "Tuple" -> TypeNode(nTuple, <<TypeNode(nInt8, <<>>), inner>>)
            [] Head(ws) = "MapValue" -> TypeNode(nMap, <<TypeNode(nString, <<>>), inner>>)
            [] Head(ws) = "MapKey" -> TypeNode(nMap, <<inner, TypeNode(nString, <<>>)>>)
            [] Head(ws) = "Other" -> TypeNode(nFoo, <<inner>>)

\* the same chain as it is written in a column definition
RECURSIVE typeText(_, _)
typeText(ws, lf) ==
  IF ws = <<>> THEN lf
  ELSE LET inner == typeText(Tail(ws), lf)
       IN CASE Head(ws) = "Array" -> nArray \o txOpen \o inner \o txClose
            [] Head(ws) = "Nullable" -> nNullable \o txOpen \o inner \o txClose
            [] Head(ws) = "LowCardinality" -> nLowCardinality \o txOpen \o inner \o txClose
            [] Head(ws) = "Tuple" -> nTuple \o txOpen \o nInt8 \o txComma \o inner \o txClose
            [] Head(ws) = "MapValue" -> nMap \o txOpen \o nString \o txComma \o inner \o txClose
            [] Head(ws) = "MapKey" -> nMap \o txOpen \o inner \o txComma \o nString \o txClose
            [] Head(ws) = "Other" -> nFoo \o txOpen \o inner \o txClose

typeDdl(ws, lf) == txColumnHead \o typeText(ws, lf) \o txColumnTail

DefaultOptions ==
  [int64As |-> "bigint", decimal |-> "string", datetimeAs |-> "string",
   camelCase |-> FALSE, failOnUnknown |-> FALSE, plugins |-> <<>>]

\* no plugin; a plugin that maps every LowCardinality node to a string of its own;
\* and that plugin standing behind one that returns the empty string for the same nodes
PluginLists ==
  {<<>>,
   <<[names |-> {nLowCardinality}, ts |-> tsPlugged]>>,
   <<[names |-> {nLowCardinality}, ts |-> <<>>],
     [names |-> {nLowCardinality}, ts |-> tsPlugged]>>}

\* a column and a table as the parser records them
column(name, type) ==
  [name |-> name, type |-> type, rawType |-> type.name, comment |-> Absent, default |-> Absent]

plainTable(name, columns) ==
  [name |-> name, columns |-> columns, partitionBy |-> Absent, orderBy |-> Absent,
   isMv |-> FALSE, mvFrom |-> <<>>, mvSelect |-> <<>>, mvCte |-> NoCte]

InitType ==
  /\ pc = "input"
  /\ stmts = <<>> /\ kept = <<>> /\ tables = <<>>
  /\ wraps = <<>> /\ leaf \in Leaves /\ opts = <<>> /\ typeRes = <<>>
  /\ asts = <<>> /\ mapped = <<>>
  /\ out = <<>>

\* put one more wrapper around the type; the two innermost wrappers are of any kind,
\* and of the wrappers around them at most one is not Array, and only when the chain
\* inside it is all Array
Wrap(kind) ==
  /\ pc = "input"
  /\ Len(wraps) < MaxNest
  /\ \/ kind = "Array"
     \/ Len(wraps) <= 1
     \/ \A i \in 1..Len(wraps) : wraps[i] = "Array"
  /\ wraps' = <<kind>> \o wraps
  /\ UNCHANGED <<stmts, pc, kept, tables, leaf, opts, typeRes, asts, mapped, out>>

\* mapTypeAstToTs(type, options), depth defaulting to 0
MapType(failOnUnknown, plugins) ==
  /\ pc = "input"
  /\ pc' = "typed"
  /\ opts' = [DefaultOptions EXCEPT !.failOnUnknown = failOnUnknown, !.plugins = plugins]
  /\ typeRes' = mapTypeAstToTs(astOf(wraps, leaf), opts', 0)
  /\ UNCHANGED <<stmts, kept, tables, wraps, leaf, asts, mapped, out>>

\* parse of a table whose one column has the type
ParseType ==
  /\ pc = "input"
  /\ pc' = "typeParsed"
  /\ tables' = parse(typeDdl(wraps, leaf)).val
  /\ UNCHANGED <<stmts, kept, wraps, leaf, opts, typeRes, asts, mapped, out>>

\* map, emit and emitJsonSchema of a table whose one column has the type
Render(plugins) ==
  /\ pc = "input"
  /\ pc' = "rendered"
  /\ opts' = [DefaultOptions EXCEPT !.plugins = plugins]
  /\ asts' = <<plainTable(<<"t">>, <<column(<<"a">>, astOf(wraps, leaf))>>)>>
  /\ mapped' = map(asts', opts')
  /\ out' = IF mapped'.err # "" THEN <<>>
            ELSE [ts |-> emit(mapped'.val), json |-> emitJsonSchema(mapped'.val)]
  /\ UNCHANGED <<stmts, kept, tables, wraps, leaf, typeRes>>

NextType ==
  \/ \E kind \in WrapKinds : Wrap(kind)
  \/ \E failOnUnknown \in BOOLEAN, plugins \in PluginLists : MapType(failOnUnknown, plugins)
  \/ ParseType
  \/ \E plugins \in PluginLists : Render(plugins)

SpecType == InitType /\ [][NextType]_vars

-----------------------------------------------------------------------------
(* The supported types as inputs: every leaf name the mapping knows, with   *)
(* and without arguments, under up to MaxWraps wrappers, written in the     *)
(* canonical, the lower-case and the upper-case spelling                    *)

MaxWraps == 2

kA ==
  <<"a">>
kB ==
  <<"b">>

PlainLeafNames ==
  {nInt8, nInt16, nInt32, nInt64, nUInt8, nUInt16, nUInt32, nUInt64, nFloat32, nFloat64,
   nString, nUUID, nIPv4, nIPv6, nDate, nDateTime, nFoo}

\* the leaves: the plain names; Decimal(38, 10), FixedString(16), DateTime64(3); an
\* enumeration with two keys, one without keys, and one whose first key is empty
LeafTypes ==
  {TypeNode(n, <<>>) : n \in PlainLeafNames}
  \cup {TypeNode(nDecimal, <<[num |-> 38], [num |-> 10]>>),
        TypeNode(nFixedString, <<[num |-> 16]>>),
        TypeNode(nDateTime64, <<[num |-> 3]>>),
        TypeNode(nEnum8, <<[key |-> kA, value |-> 1], [key |-> kB, value |-> 2]>>),
        TypeNode(nEnum16, <<>>),
        TypeNode(nEnum8, <<[key |-> <<>>, value |-> 0], [key |-> kA, value |-> 1]>>)}

LeafWrapKinds == {"Array", "Nullable", "LowCardinality", "Tuple", "MapValue", "MapKey"}

\* the TypeAst of the chain ws, outermost first, around the type inner
RECURSIVE typeOver(_, _)
typeOver(ws, inner) ==
  IF ws = <<>> THEN inner
  ELSE LET t == typeOver(Tail(ws), inner)
       IN CASE Head(ws) = "Array" -> TypeNode(nArray, <<t>>)
            [] Head(ws) = "Nullable" -> TypeNode(nNullable, <<t>>)
            [] Head(ws) = "LowCardinality" -> TypeNode(nLowCardinality, <<t>>)
            [] Head(ws) = "Tuple" -> TypeNode(nTuple, <<TypeNode(nInt8, <<>>), t>>)
            [] Head(ws) = "MapValue" -> TypeNode(nMap, <<TypeNode(nString, <<>>), t>>)
            [] Head(ws) = "MapKey" -> TypeNode(nMap, <<t, TypeNode(nString, <<>>)>>)

Spellings == {"canonical", "lower", "upper"}

toUpperCase(s) == [i \in 1..Len(s) |-> toUpperChar(s[i])]

spelled(name, spelling) ==
  CASE spelling = "canonical" -> name
    [] spelling = "lower" -> toLowerCase(name)
    [] spelling = "upper" -> toUpperCase(name)

\* a type as it is written in a column definition, its names in the spelling
RECURSIVE typeTextIn(_, _)
typeTextIn(type, spelling) ==
  LET argText(a) ==
        IF isTypeAst(a) THEN typeTextIn(a, spelling)
        ELSE IF DOMAIN a = {"num"} THEN digitsOf(a.num)
        ELSE <<"'">> \o a.key \o <<"'", " ", "=", " ">> \o digitsOf(a.value)
  IN spelled(type.name, spelling)
       \o (IF type.args = <<>> THEN <<>>
           ELSE txOpen \o joinWith([k \in 1..Len(type.args) |-> argText(type.args[k])], txComma)
                  \o txClose)

typeDdlIn(type, spelling) == txColumnHead \o typeTextIn(type, spelling) \o txColumnTail

Int64Choices == {"bigint", "string"}
DecimalChoices == {"string", "decimal.js"}
DatetimeChoices == {"string", "Date"}

optionsOf(int64As, decimal, datetimeAs, failOnUnknown) ==
  [DefaultOptions EXCEPT !.int64As = int64As, !.decimal = decimal,
                         !.datetimeAs = datetimeAs, !.failOnUnknown = failOnUnknown]

InitLeaf ==
  /\ pc = "input"
  /\ stmts = <<>> /\ kept = <<>> /\ tables = <<>>
  /\ wraps = <<>> /\ leaf \in LeafTypes /\ opts = <<>> /\ typeRes = <<>>
  /\ asts = <<>> /\ mapped = <<>>
  /\ out = <<>>

\* put one more wrapper around the type
WrapLeaf(kind) ==
  /\ pc = "input"
  /\ Len(wraps) < MaxWraps
  /\ wraps' = <<kind>> \o wraps
  /\ UNCHANGED <<stmts, pc, kept, tables, leaf, opts, typeRes, asts, mapped, out>>

\* mapTypeAstToTs(type, options) without plugins
MapLeaf(int64As, decimal, datetimeAs, failOnUnknown) ==
  /\ pc = "input"
  /\ pc' = "typed"
  /\ opts' = optionsOf(int64As, decimal, datetimeAs, failOnUnknown)
  /\ typeRes' = mapTypeAstToTs(typeOver(wraps, leaf), opts', 0)
  /\ UNCHANGED <<stmts, kept, tables, wraps, leaf, asts, mapped, out>>

\* parse of a table whose one column has the type in a spelling, then map of the
\* tables parse returned
ParseSpelled(spelling, failOnUnknown) ==
  /\ pc = "input"
  /\ pc' = "spelled"
  /\ stmts' = <<typeDdlIn(typeOver(wraps, leaf), spelling)>>
  /\ tables' = parse(stmts'[1]).val
  /\ opts' = [DefaultOptions EXCEPT !.failOnUnknown = failOnUnknown]
  /\ mapped' = map(tables', opts')
  /\ UNCHANGED <<kept, wraps, leaf, typeRes, asts, out>>

\* map of a table whose one column has the type, then emit with emitZod on
EmitZod(int64As, decimal, datetimeAs) ==
  /\ pc = "input"
  /\ pc' = "validated"
  /\ opts' = optionsOf(int64As, decimal, datetimeAs, FALSE)
  /\ asts' = <<plainTable(<<"t">>, <<column(<<"a">>, typeOver(wraps, leaf))>>)>>
  /\ mapped' = map(asts', opts')
  /\ out' = IF mapped'.err # "" THEN <<>> ELSE [ts |-> emitWithZod(mapped'.val)]
  /\ UNCHANGED <<stmts, kept, tables, wraps, leaf, typeRes>>

NextLeaf ==
  \/ \E kind \in LeafWrapKinds : WrapLeaf(kind)
  \/ \E int64As \in Int64Choices, decimal \in DecimalChoices, datetimeAs \in DatetimeChoices,
        failOnUnknown \in BOOLEAN : MapLeaf(int64As, decimal, datetimeAs, failOnUnknown)
  \/ \E spelling \in Spellings, failOnUnknown \in BOOLEAN : ParseSpelled(spelling, failOnUnknown)
  \/ \E int64As \in Int64Choices, decimal \in DecimalChoices, datetimeAs \in DatetimeChoices :
       EmitZod(int64As, decimal, datetimeAs)

SpecLeaf == InitLeaf /\ [][NextLeaf]_vars

-----------------------------------------------------------------------------
(* One statement as input: a CREATE TABLE built column definition by       *)
(* column definition, or a materialized view over a projection list of a   *)
(* given length.                                                           *)

MaxDefs == 2

cdPlain == <<"a"," ","I","n","t","8">>
cdNoted == <<"b"," ","I","n","t","8"," ","C","O","M","M","E","N","T"," ","'","p","'">>
\* a ';' inside the comment literal
cdSemi == <<"c"," ","I","n","t","8"," ","C","O","M","M","E","N","T"," ","'","p",";","q","'">>
\* a ';' inside a block comment
cdRemark == <<"d"," ","I","n","t","8"," ","/","*"," ","r",";","s"," ","*","/">>
cdDefault == <<"e"," ","I","n","t","8"," ","D","E","F","A","U","L","T"," ","1">>
cdCall == <<"f"," ","D","a","t","e"," ","D","E","F","A","U","L","T"," ","t","o","d","a","y","(",")">>
cdCodec == <<"g"," ","I","n","t","8"," ","C","O","D","E","C","(","L","Z","4",")">>
cdNested == <<"h"," ","I","n","t","8"," ","C","O","D","E","C","(","Z","S","T","D","(","1",")",")">>
\* a default expression of DefaultLimit + 1 tokens: 1+1+...+1
cdLong ==
  <<"k"," ","I","n","t","8"," ","D","E","F","A","U","L","T"," ">>
    \o [i \in 1..(2 * DefaultLimit + 1) |-> IF i % 2 = 1 THEN "1" ELSE "+"]

ColumnDefs == <<cdPlain, cdNoted, cdSemi, cdRemark, cdDefault, cdCall, cdCodec, cdNested, cdLong>>
\* the column each definition declares
DefNames == <<"a", "b", "c", "d", "e", "f", "g", "h", "k">>

\* the projection lists: one item, two, as many as parseSelectList takes, one more
ItemCounts == {1, 2, maxItems, maxItems + 1}

DigitSeq == <<"0","1","2","3","4","5","6","7","8","9">>

\* item i of a projection list, with the comma before the next item: c001, c002, ...
itemText(i) ==
  <<"c", DigitSeq[((i \div 100) % 10) + 1], DigitSeq[((i \div 10) % 10) + 1],
    DigitSeq[(i % 10) + 1], ",">>

\* the n items, comma-separated
itemsText(n) == [j \in 1..(5 * n - 1) |-> itemText(((j - 1) \div 5) + 1)[((j - 1) % 5) + 1]]

RECURSIVE defsText(_)
defsText(parts) ==
  IF parts = <<>> THEN <<>>
  ELSE ColumnDefs[Head(parts).def]
       \o (IF Len(parts) > 1 THEN <<",", " ">> ELSE <<>>) \o defsText(Tail(parts))

\* the text of the statement the parts describe
clauseDdl(parts) ==
  IF parts # <<>> /\ parts[1].kind = "select"
    THEN <<"C","R","E","A","T","E"," ","M","A","T","E","R","I","A","L","I","Z","E","D"," ",
           "V","I","E","W"," ","m"," ","A","S"," ","S","E","L","E","C","T"," ">>
         \o itemsText(parts[1].items) \o <<" ","F","R","O","M"," ","t",";">>
    ELSE <<"C","R","E","A","T","E"," ","T","A","B","L","E"," ","x"," ","(">>
         \o defsText(parts) \o <<")",";">>

-----------------------------------------------------------------------------
(* Specification of parse on one statement                                 *)

InitClause ==
  /\ pc = "input"
  /\ stmts = <<>> /\ kept = <<>> /\ tables = <<>>
  /\ wraps = <<>> /\ leaf = <<>> /\ opts = <<>> /\ typeRes = <<>>
  /\ asts = <<>> /\ mapped = <<>>
  /\ out = <<>>

AddColumnDef(k) ==
  /\ pc = "input"
  /\ Len(stmts) < MaxDefs
  /\ \A i \in 1..Len(stmts) : stmts[i].kind = "column"
  /\ stmts' = Append(stmts, [kind |-> "column", def |-> k])
  /\ UNCHANGED <<pc, kept, tables, wraps, leaf, opts, typeRes, asts, mapped, out>>

AddSelectList(n) ==
  /\ pc = "input"
  /\ stmts = <<>>
  /\ stmts' = <<[kind |-> "select", items |-> n]>>
  /\ UNCHANGED <<pc, kept, tables, wraps, leaf, opts, typeRes, asts, mapped, out>>

\* parse(ddl); kept records the statements the splitter handed to the parser
ParseStatement ==
  /\ pc = "input"
  /\ stmts # <<>>
  /\ pc' = "parsed"
  /\ kept' = splitStatements(filterStatements(clauseDdl(stmts)))
  /\ tables' = parse(clauseDdl(stmts)).val
  /\ UNCHANGED <<stmts, wraps, leaf, opts, typeRes, asts, mapped, out>>

NextClause ==
  \/ \E k \in 1..Len(ColumnDefs) : AddColumnDef(k)
  \/ \E n \in ItemCounts : AddSelectList(n)
  \/ ParseStatement

SpecClause == InitClause /\ [][NextClause]_vars

-----------------------------------------------------------------------------
(* Tables as inputs of map: a source table, an inferred view over it, and a *)
(* materialized view whose projection is put together item by item          *)

cId ==
  <<"i","d">>
cName ==
  <<"n","a","m","e">>
cUserId ==
  <<"u","s","e","r","_","i","d">>
cUserIdCamel ==
  <<"u","s","e","r","I","d">>
cMissing ==
  <<"m","i","s","s","i","n","g">>
cTotal ==
  <<"t","o","t","a","l">>
cHi ==
  <<"h","i">>
cV ==
  <<"v">>
cW ==
  <<"w">>
cG ==
  <<"g">>
cN ==
  <<"n">>
tBase ==
  <<"b","a","s","e">>
tBaseCased ==
  <<"B","a","s","e">>
tInner ==
  <<"i","n","n","e","r">>
tMv ==
  <<"m","v">>
tCte ==
  <<"c">>
fSum ==
  <<"s","u","m">>
fSumState ==
  <<"S","u","m","S","t","a","t","e">>
fMaxState ==
  <<"m","a","x","S","t","a","t","e">>
fArgMax ==
  <<"a","r","g","M","a","x">>
fToFloat64 ==
  <<"t","o","F","l","o","a","t","6","4">>
fFoo ==
  <<"f","o","o">>
MaxItems == 2
MaxCteColumns == 1

\* a projection item as parseSelectItem records it
plain(name, alias) == [name |-> name, alias |-> alias, srcName |-> name, func |-> <<>>]
call(func, arg, alias) == [name |-> func, alias |-> alias, srcName |-> arg, func |-> func]

\* a view without column list, as parseMaterializedViewBody records it
viewTable(name, from, items, cte) ==
  [name |-> name,
   columns |-> [i \in 1..Len(items) |-> column(outputName(items[i]), UnknownType)],
   partitionBy |-> Absent, orderBy |-> Absent,
   isMv |-> TRUE, mvFrom |-> from, mvSelect |-> items, mvCte |-> cte]

baseTable ==
  plainTable(tBase, <<column(cId, TypeNode(nUInt64, <<>>)),
                      column(cName, TypeNode(nString, <<>>)),
                      column(cUserId, TypeNode(nInt32, <<>>))>>)

innerView == viewTable(tInner, tBase, <<plain(cId, <<>>)>>, NoCte)

SelectItems ==
  <<plain(cId, <<>>), plain(cName, cId), plain(cUserIdCamel, <<>>), plain(cMissing, <<>>),
    plain(cV, cW),
    call(fSum, cId, cTotal), call(fSumState, cV, cN), call(fMaxState, cV, cHi),
    call(fArgMax, cName, cTotal), call(fFoo, cMissing, cG), plain(cName, cUserId)>>

CteItems ==
  <<plain(cId, <<>>), plain(cName, cV),
    call(fToFloat64, cId, cV), call(fFoo, cId, cV), call(fFoo, cMissing, cV)>>

\* where the view selects from: a table of the input (named exactly or in another
\* casing), an inferred view of the input, a named sub-query, or nothing
SourceKinds == {"table", "cased", "view", "cte", "none"}

fromOf(kind) ==
  CASE kind = "table" -> tBase
    [] kind = "cased" -> tBaseCased
    [] kind = "view" -> tInner
    [] kind = "cte" -> tCte
    [] kind = "none" -> <<>>

cteOf(kind) ==
  IF kind = "cte" THEN [has |-> TRUE, name |-> tCte, src |-> tBase, columns |-> <<>>]
  ELSE NoCte

InitMap ==
  /\ pc = "input"
  /\ stmts = <<>> /\ kept = <<>> /\ tables = <<>>
  /\ wraps = <<>> /\ leaf = <<>> /\ opts = <<>> /\ typeRes = <<>>
  /\ \E kind \in SourceKinds :
       asts = <<baseTable, innerView, viewTable(tMv, fromOf(kind), <<>>, cteOf(kind))>>
  /\ mapped = <<>>
  /\ out = <<>>

AddSelectItem(k) ==
  /\ pc = "input"
  /\ Len(asts[3].mvSelect) < MaxItems
  /\ asts' = [asts EXCEPT ![3] = viewTable(tMv, asts[3].mvFrom,
                                           Append(asts[3].mvSelect, SelectItems[k]),
                                           asts[3].mvCte)]
  /\ UNCHANGED <<stmts, pc, kept, tables, wraps, leaf, opts, typeRes, mapped, out>>

AddCteColumn(k) ==
  /\ pc = "input"
  /\ asts[3].mvCte.has
  /\ Len(asts[3].mvCte.columns) < MaxCteColumns
  /\ asts' = [asts EXCEPT ![3].mvCte.columns = Append(@, CteItems[k])]
  /\ UNCHANGED <<stmts, pc, kept, tables, wraps, leaf, opts, typeRes, mapped, out>>

\* map(tables, options)
Map(failOnUnknown, camelCase) ==
  /\ pc = "input"
  /\ pc' = "mapped"
  /\ opts' = [DefaultOptions EXCEPT !.failOnUnknown = failOnUnknown,
                                    !.camelCase = camelCase]
  /\ mapped' = map(asts, opts')
  /\ UNCHANGED <<stmts, kept, tables, wraps, leaf, typeRes, asts, out>>

\* emit(mapped, { emitZod: false }) and emitJsonSchema(mapped) on what map returned
Emit ==
  /\ pc = "mapped"
  /\ mapped.err = ""
  /\ pc' = "emitted"
  /\ out' = [ts |-> emit(mapped.val), json |-> emitJsonSchema(mapped.val)]
  /\ UNCHANGED <<stmts, kept, tables, wraps, leaf, opts, typeRes, asts, mapped>>

NextMap ==
  \/ \E k \in 1..Len(SelectItems) : AddSelectItem(k)
  \/ \E k \in 1..Len(CteItems) : AddCteColumn(k)
  \/ \E failOnUnknown \in BOOLEAN, camelCase \in BOOLEAN : Map(failOnUnknown, camelCase)
  \/ Emit

SpecMap == InitMap /\ [][NextMap]_vars

-----------------------------------------------------------------------------
(* Claims about parse                                                      *)

\* a is a subsequence of b (the elements of a occur in b, in the same order)
RECURSIVE isSubsequence(_, _)
isSubsequence(a, b) ==
  IF a = <<>> THEN TRUE
  ELSE IF b = <<>> THEN FALSE
  ELSE IF Head(a) = Head(b) THEN isSubsequence(Tail(a), Tail(b))
  ELSE isSubsequence(a, Tail(b))

RECURSIVE tablesOfEach(_)
tablesOfEach(ss) ==
  IF ss = <<>> THEN <<>>
  ELSE parse(statementText(Head(ss)) \o <<";">>).val \o tablesOfEach(Tail(ss))

\* the statements of the input the filter has no ground to remove
RECURSIVE unremovable(_)
unremovable(ss) ==
  IF ss = <<>> THEN <<>>
  ELSE IF BodyKind[Head(ss).body] \in {"view", "routing"} THEN unremovable(Tail(ss))
  ELSE <<trim(statementText(Head(ss)))>> \o unremovable(Tail(ss))

\* C3: parse returns no table for a CREATE MATERIALIZED VIEW statement that has a
\* TO clause (the catalogue's routing view is the only statement declaring r),
\* wherever it stands and whatever skipped text precedes its CREATE.
C3_NoRoutingViewInOutput ==
  pc = "parsed" =>
    \A i \in 1..Len(tables) : tables[i].name # <<"r">>

\* C4: the statement filter keeps, in input order, every statement that is neither
\* a plain CREATE VIEW nor a CREATE MATERIALIZED VIEW with a routing clause.
C4_FilterRemovesOnlyViews ==
  pc = "parsed" => isSubsequence(unremovable(stmts), kept)

\* C5: parse returns, in input order, exactly the tables each statement yields when
\* parsed on its own; a statement that yields none changes nothing for the others.
C5_StatementRecovery ==
  pc = "parsed" => tables = tablesOfEach(stmts)

\* a malformed statement stands first and the statement after it still gave its table
C5_Witness ==
  /\ pc = "parsed"
  /\ Len(stmts) = 2
  /\ BodyKind[stmts[1].body] = "malformed"
  /\ BodyKind[stmts[2].body] = "table"
  /\ Len(tables) = 1

\* C11: the table parse returns for the materialized view w, whose body starts with
\* WITH c AS (SELECT a FROM t), records the named sub-query: its name c, its source
\* table t and its one projection item a.
C11_SubQueryRecorded ==
  pc = "parsed" =>
    \A i \in 1..Len(tables) :
      tables[i].name = <<"w">> =>
        /\ tables[i].mvCte.has
        /\ tables[i].mvCte.name = <<"c">>
        /\ tables[i].mvCte.src = <<"t">>
        /\ tables[i].mvCte.columns =
             <<[name |-> <<"a">>, alias |-> <<>>, srcName |-> <<"a">>, func |-> <<>>]>>

\* C14: the text the statement filter returns is a fixed point of the filter, it
\* splits into the same statements when filtered again, and parse of it returns the
\* tables parse of the input returns.
C14_FilterIdempotent ==
  pc = "parsed" =>
    bindTo(filterStatements(ddlOf(stmts)), LAMBDA once :
      /\ filterStatements(once) = once
      /\ splitStatements(filterStatements(once)) = splitStatements(once)
      /\ parse(once).val = tables)

\* two statements went in, the filter removed one of them and kept the other
C14_Witness ==
  /\ pc = "parsed"
  /\ Len(stmts) = 2
  /\ Len(kept) = 1
  /\ Len(tables) = 1

\* C15: no statement the filter lets through gives a lexing error: every character
\* of it belongs to a token or is skipped.
C15_TokenizingNeverFails ==
  pc = "parsed" =>
    \A i \in 1..Len(kept) : tokenize(kept[i] \o <<";">>).errors = 0

-----------------------------------------------------------------------------
(* Claims about type nesting                                               *)

typeArgsOf(type) == {i \in 1..Len(type.args) : isTypeAst(type.args[i])}

\* the greatest element of a non-empty set of numbers
maxOf(S) == CHOOSE m \in S : \A x \in S : x <= m

\* nesting depth of a TypeExpr: 0 for a leaf, one more than its deepest argument
RECURSIVE depthOf(_)
depthOf(type) ==
  IF typeArgsOf(type) = {} THEN 0
  ELSE 1 + maxOf({depthOf(type.args[i]) : i \in typeArgsOf(type)})

\* the deepest level the mapping steps to, the root being level 0: below a node
\* for which no plugin returns a string, or the first string returned is empty, the
\* first argument of Nullable, LowCardinality and Array (a placeholder leaf when
\* there is none), every argument of Tuple, the second of Map
RECURSIVE visitDepth(_, _, _)
visitDepth(type, plugins, level) ==
  IF LET first == tryPluginFrom(type, plugins, 1, Min(Len(plugins), maxPlugins))
     IN first.defined /\ first.ts # <<>>
    THEN level
  ELSE IF type.name \in {nNullable, nLowCardinality, nArray}
    THEN IF Len(type.args) >= 1 /\ isTypeAst(type.args[1])
           THEN visitDepth(type.args[1], plugins, level + 1)
           ELSE level + 1
  ELSE IF type.name = nTuple /\ Len(type.args) >= 1
    THEN maxOf({IF isTypeAst(type.args[i])
                  THEN visitDepth(type.args[i], plugins, level + 1)
                  ELSE level + 1 : i \in 1..Len(type.args)})
  ELSE IF type.name = nMap
    THEN IF Len(type.args) >= 2 /\ isTypeAst(type.args[2])
           THEN visitDepth(type.args[2], plugins, level + 1)
           ELSE level + 1
  ELSE level

C7_ParsedDepthBounded ==
  pc = "typeParsed" =>
    \A i \in 1..Len(tables) : \A j \in 1..Len(tables[i].columns) :
      depthOf(tables[i].columns[j].type) <= 20

-----------------------------------------------------------------------------
(* Claims about the rendered types.  A shape is what a type says about     *)
(* structure and nullability: [null, kind, kids], kind one of "leaf",      *)
(* "array", "object", "map", "union".                                      *)

Shape(null, kind, kids) == [null |-> null, kind |-> kind, kids |-> kids]

tsNull ==
  <<"n","u","l","l">>

\* position i of the type text s stands inside no bracket
topLevel(s, i) ==
  Cardinality({k \in 1..(i - 1) : s[k] \in {"<", "{", "(", "["}})
    = Cardinality({k \in 1..(i - 1) : s[k] \in {">", "}", ")", "]"}})

\* the pieces of s between the occurrences of c that stand inside no bracket, trimmed
splitTop(s, c) ==
  LET cuts == {i \in 1..Len(s) : s[i] = c /\ topLevel(s, i)}
      n == Cardinality(cuts)
      cut(k) == IF k = 0 THEN 0
                ELSE IF k = n + 1 THEN Len(s) + 1
                ELSE CHOOSE i \in cuts : Cardinality({j \in cuts : j < i}) = k - 1
  IN [k \in 1..(n + 1) |-> trim(slice(s, cut(k - 1) + 1, cut(k) - 1))]

\* the type of a field "_i: T" of an object type
fieldType(f) ==
  LET colon == CHOOSE i \in 1..Len(f) : f[i] = ":" /\ \A j \in 1..(i - 1) : f[j] # ":"
  IN trim(slice(f, colon + 1, Len(f)))

\* the shape TypeScript reads from a type text: a union splits first (the postfix []
\* binds tighter than |), then an array type, Record<string, V>, an object type
\* { _0: A; _1: B; }, a parenthesised type, and anything else is a leaf
RECURSIVE readTs(_)
readTs(s) ==
  LET alts == splitTop(s, "|")
      others == SelectSeq(alts, LAMBDA a : a # tsNull)
  IN IF Len(alts) > 1
       THEN IF Len(others) = 1
              THEN [readTs(others[1]) EXCEPT !.null = TRUE]
              ELSE Shape(Len(others) < Len(alts), "union",
                         [k \in 1..Len(others) |-> readTs(others[k])])
     ELSE IF Len(s) > 2 /\ hasAt(s, Len(s) - 1, tsArray)
       THEN Shape(FALSE, "array", <<readTs(slice(s, 1, Len(s) - 2))>>)
     ELSE IF hasAt(s, 1, tsRecordOpen) /\ s[Len(s)] = ">"
       THEN Shape(FALSE, "map", <<readTs(slice(s, Len(tsRecordOpen) + 1, Len(s) - 1))>>)
     ELSE IF Len(s) >= 2 /\ s[1] = "{" /\ s[Len(s)] = "}"
       THEN LET fields == filterNonEmpty(splitTop(slice(s, 2, Len(s) - 1), ";"))
            IN Shape(FALSE, "object", [k \in 1..Len(fields) |-> readTs(fieldType(fields[k]))])
     ELSE IF Len(s) >= 2 /\ s[1] = "(" /\ s[Len(s)] = ")"
       THEN readTs(slice(s, 2, Len(s) - 1))
     ELSE Shape(FALSE, "leaf", <<>>)

\* the shape a JSON Schema describes: anyOf with a null branch is nullable, items an
\* array, properties an object, a schema under additionalProperties a map
RECURSIVE jsonShape(_)
jsonShape(schema) ==
  IF "anyOf" \in DOMAIN schema THEN [jsonShape(schema.anyOf[1]) EXCEPT !.null = TRUE]
  ELSE IF "items" \in DOMAIN schema THEN Shape(FALSE, "array", <<jsonShape(schema.items)>>)
  ELSE IF "properties" \in DOMAIN schema
    THEN Shape(FALSE, "object",
               [k \in 1..Len(schema.properties) |-> jsonShape(schema.properties[k].value)])
  ELSE IF "additionalProperties" \in DOMAIN schema
    THEN Shape(FALSE, "map", <<jsonShape(schema.additionalProperties)>>)
  ELSE Shape(FALSE, "leaf", <<>>)

\* C12: when both renderers return, the type of every interface field and the
\* JSON-Schema property of the same column have the same shape: null is allowed at
\* the same positions, and arrays, objects and maps stand at the same positions.
C12_InterfaceAndSchemaAgree ==
  (pc = "rendered" /\ out # <<>> /\ out.ts.err = "" /\ out.json.err = "") =>
    \A i \in 1..Len(out.ts.val.interfaces[1].properties) :
      readTs(out.ts.val.interfaces[1].properties[i].type)
        = jsonShape(out.json.val[1].properties[i].value)

\* C13: without plugins, the type mapped from Array(Nullable(T)) reads as an array
\* whose element type allows null.
C13_ArrayOfNullableIsArray ==
  (/\ pc = "typed" /\ typeRes.err = "" /\ opts.plugins = <<>>
   /\ Len(wraps) >= 2 /\ wraps[1] = "Array" /\ wraps[2] = "Nullable") =>
    bindTo(readTs(typeRes.ts), LAMBDA shape :
      /\ shape.kind = "array"
      /\ ~shape.null
      /\ shape.kids[1].null)

\* C16: the mapping of the root node is the string of the first plugin, in list
\* order, that returns a string for it, whatever that string is.
C16_FirstDefinedPluginWins ==
  pc = "typed" =>
    \A i \in 1..Len(opts.plugins) :
      (/\ astOf(wraps, leaf).name \in opts.plugins[i].names
       /\ \A j \in 1..(i - 1) : astOf(wraps, leaf).name \notin opts.plugins[j].names) =>
        typeRes = TsOk(opts.plugins[i].ts)

-----------------------------------------------------------------------------
(* Claims about the inference of view column types                         *)

\* the view under inference, its projection, and what map made of its columns
theView == asts[3]
theItems == asts[3].mvSelect
theColumns == mapped.val[3].columns

\* the view selects from a table of the input / from nothing the input declares
onCtePath == theView.mvFrom = <<>> \/ ~findTableByName(asts, theView.mvFrom).has

\* no later item of the projection has the same output name
lastOfItsName(i) ==
  \A j \in (i + 1)..Len(theItems) : outputName(theItems[j]) # outputName(theItems[i])

startsWithAny(s, prefixes) == \E q \in prefixes : startsWith(toLowerCase(s), q)

\* the sub-query column an item reads, and the base type it yields: the type of
\* its conversion function, or else of its source column in the sub-query's source
cteColumnRead(item) ==
  bindTo({j \in 1..Len(theView.mvCte.columns) :
            outputName(theView.mvCte.columns[j]) = item.srcName}, LAMBDA hits :
    IF hits = {} THEN None ELSE Some(theView.mvCte.columns[maxOf(hits)]))

baseTypeRead(item) ==
  bindTo(cteColumnRead(item), LAMBDA col :
    IF ~col.has THEN None
    ELSE IF col.val.func # <<>> /\ mapFuncToType(col.val.func) # UnknownType
      THEN Some(mapFuncToType(col.val.func))
    ELSE bindTo(findColumnByName(baseTable, col.val.srcName), LAMBDA src :
           IF theView.mvCte.src = tBase /\ src.has THEN Some(src.val.type) ELSE None))

\* C1: on the source-table path every output column has the type and raw type of
\* the source column its own projection item refers to, when the source has it.
C1_ColumnTypedByItsOwnItem ==
  (pc = "mapped" /\ mapped.err = "" /\ theView.mvFrom \in {tBase, tBaseCased}) =>
    \A i \in 1..Len(theItems) :
      bindTo(findColumnByName(baseTable, IF theItems[i].alias # <<>>
                                           THEN theItems[i].srcName
                                           ELSE theItems[i].name), LAMBDA src :
        src.has => /\ theColumns[i].typeAst = src.val.type
                   /\ theColumns[i].chType = src.val.rawType)

\* C2: when map returns, no column of any mapped table has the type Unknown.
C2_NoUnknownAfterMap ==
  (pc = "mapped" /\ mapped.err = "") =>
    \A t \in 1..Len(mapped.val) : \A i \in 1..Len(mapped.val[t].columns) :
      mapped.val[t].columns[i].typeAst.name # nUnknown

-----------------------------------------------------------------------------
(* Claims about map and the renderers                                      *)

\* the name map gives a column under the casing option
casedName(name) == IF opts.camelCase THEN toCamelCase(name) ELSE name

\* C17: map returns one table per input table and one column per input column, in
\* the input's order, and emit declares one interface per mapped table and one
\* property per mapped column, in that order.
C17_NothingReorderedOrDropped ==
  (pc = "emitted" /\ out.ts.err = "") =>
    /\ Len(mapped.val) = Len(asts)
    /\ Len(out.ts.val.interfaces) = Len(mapped.val)
    /\ \A i \in 1..Len(asts) :
         /\ mapped.val[i].interfaceName = toPascalCase(asts[i].name)
         /\ out.ts.val.interfaces[i].name = mapped.val[i].interfaceName
         /\ Len(mapped.val[i].columns) = Len(asts[i].columns)
         /\ Len(out.ts.val.interfaces[i].properties) = Len(mapped.val[i].columns)
         /\ \A j \in 1..Len(asts[i].columns) :
              /\ mapped.val[i].columns[j].name = casedName(asts[i].columns[j].name)
              /\ out.ts.val.interfaces[i].properties[j].name = mapped.val[i].columns[j].name
              /\ out.ts.val.interfaces[i].properties[j].type = mapped.val[i].columns[j].tsType

\* three tables were rendered, the view with two columns of different names and types
C17_Witness ==
  /\ pc = "emitted" /\ out.ts.err = ""
  /\ Len(out.ts.val.interfaces) = 3
  /\ Len(out.ts.val.interfaces[3].properties) = 2
  /\ out.ts.val.interfaces[3].properties[1].name # out.ts.val.interfaces[3].properties[2].name
  /\ out.ts.val.interfaces[3].properties[1].type # out.ts.val.interfaces[3].properties[2].type

\* the names of the columns of a mapped table, in order
columnNames(table) == [j \in 1..Len(table.columns) |-> table.columns[j].name]

\* C18, as stated: emitJsonSchema returns one root document per mapped table, each
\* with a required list naming that table's columns in order.
C18_OneDocumentPerTable ==
  (pc = "emitted" /\ out.json.err = "") =>
    /\ Len(out.json.val) = Len(mapped.val)
    /\ \A i \in 1..Len(out.json.val) :
         out.json.val[i].required = columnNames(mapped.val[i])

\* C18, amended: emitJsonSchema returns one root document, for the first mapped
\* table only, with a required list naming that table's columns in order.
C18_OneDocumentForFirstTable ==
  (pc = "emitted" /\ out.json.err = "") =>
    /\ Len(out.json.val) = 1
    /\ out.json.val[1].title = mapped.val[1].interfaceName
    /\ out.json.val[1].required = columnNames(mapped.val[1])
    /\ [k \in 1..Len(out.json.val[1].properties) |-> out.json.val[1].properties[k].key]
         = columnNames(mapped.val[1])

\* three tables were given and the one document names the three columns of the first
C18_Witness ==
  /\ pc = "emitted" /\ out.json.err = ""
  /\ Len(mapped.val) = 3
  /\ Len(out.json.val) = 1
  /\ Len(out.json.val[1].required) = 3
  /\ mapped.val[3].columns # <<>>

\* what map returns for the same tables when only the casing option differs
otherCasing == map(asts, [opts EXCEPT !.camelCase = ~@])

\* C19: map with the other value of the casing option fails exactly when this run
\* failed, and otherwise returns, position by position, the same table names and
\* for every column the same resolved type, mapped string and raw type text.
C19_CasingDoesNotAffectTypes ==
  pc = "mapped" =>
    bindTo(otherCasing, LAMBDA other :
      /\ other.err = mapped.err
      /\ Len(other.val) = Len(mapped.val)
      /\ \A i \in 1..Len(mapped.val) :
           /\ other.val[i].interfaceName = mapped.val[i].interfaceName
           /\ Len(other.val[i].columns) = Len(mapped.val[i].columns)
           /\ \A j \in 1..Len(mapped.val[i].columns) :
                /\ other.val[i].columns[j].typeAst = mapped.val[i].columns[j].typeAst
                /\ other.val[i].columns[j].tsType = mapped.val[i].columns[j].tsType
                /\ other.val[i].columns[j].chType = mapped.val[i].columns[j].chType)

\* casing was on, the view column declared `name AS user_id` came out as userId with
\* the type of the base column name, and the other run names it user_id
C19_Witness ==
  /\ pc = "mapped" /\ mapped.err = "" /\ opts.camelCase
  /\ \E j \in 1..Len(asts[3].columns) :
       /\ asts[3].columns[j].name = cUserId
       /\ mapped.val[3].columns[j].name = cUserIdCamel
       /\ mapped.val[3].columns[j].typeAst = TypeNode(nString, <<>>)
       /\ otherCasing.val[3].columns[j].name = cUserId

\* the columns of all tables of a map result, as <<table, column>> positions
positionsOf(result) ==
  UNION {{<<i, j>> : j \in 1..Len(result[i].columns)} : i \in 1..Len(result)}

-----------------------------------------------------------------------------
(* Claims about the mapping table                                          *)

\* the type under mapping
theType == typeOver(wraps, leaf)

\* C21: for a type of supported names written in any spelling, the parsed column
\* carries the type with its names in the canonical spelling, and map of the parsed
\* table gives the column the string the canonical type maps to.
C21_SpellingCanonicalized ==
  (pc = "spelled" /\ leaf.name # nFoo) =>
    /\ Len(tables) = 1
    /\ Len(tables[1].columns) = 1
    /\ tables[1].columns[1].type = theType
    /\ mapped.err = mapTypeAstToTs(theType, opts, 0).err
    /\ mapped.err = "" =>
         mapped.val[1].columns[1].tsType = mapTypeAstToTs(theType, opts, 0).ts

\* what a type text denotes: [kind, text, kids], kind one of "leaf" (text is the type
\* name or literal), "union" (kids are the alternatives in order), "array", "map"
\* (the one kid is the element or value type) and "object" (kids are the field types
\* in order, text the field names)
Den(kind, text, kids) == [kind |-> kind, text |-> text, kids |-> kids]

\* the name of a field "_i: T" of an object type
fieldName(f) ==
  LET colon == CHOOSE i \in 1..Len(f) : f[i] = ":" /\ \A j \in 1..(i - 1) : f[j] # ":"
  IN trim(slice(f, 1, colon - 1))

\* the denotation TypeScript reads from a type text: a union splits first (the
\* postfix [] binds tighter than |), then an array type, Record<string, V>, an
\* object type, a parenthesised type, and anything else is a leaf
RECURSIVE readType(_)
readType(s) ==
  bindTo(splitTop(s, "|"), LAMBDA alts :
    IF Len(alts) > 1 THEN Den("union", <<>>, [k \in 1..Len(alts) |-> readType(alts[k])])
    ELSE IF Len(s) > 2 /\ hasAt(s, Len(s) - 1, tsArray)
      THEN Den("array", <<>>, <<readType(slice(s, 1, Len(s) - 2))>>)
    ELSE IF hasAt(s, 1, tsRecordOpen) /\ s[Len(s)] = ">"
      THEN Den("map", <<>>, <<readType(slice(s, Len(tsRecordOpen) + 1, Len(s) - 1))>>)
    ELSE IF Len(s) >= 2 /\ s[1] = "{" /\ s[Len(s)] = "}"
      THEN bindTo(filterNonEmpty(splitTop(slice(s, 2, Len(s) - 1), ";")), LAMBDA fields :
             Den("object", joinWith([k \in 1..Len(fields) |-> fieldName(fields[k])], <<",">>),
                 [k \in 1..Len(fields) |-> readType(fieldType(fields[k]))]))
    ELSE IF Len(s) >= 2 /\ s[1] = "(" /\ s[Len(s)] = ")"
      THEN readType(slice(s, 2, Len(s) - 1))
    ELSE Den("leaf", s, <<>>))

\* the alternatives of a denotation
altsOf(d) == IF d.kind = "union" THEN d.kids ELSE <<d>>

unionOf(alts) == IF Len(alts) = 1 THEN alts[1] ELSE Den("union", <<>>, alts)

DenOk(d) == [err |-> "", val |-> d]

\* the reference table: [err, val], val the denotation of the mapping of a type
RECURSIVE refType(_, _)
refType(type, options) ==
  LET n == type.name
      leafOf(text) == DenOk(Den("leaf", text, <<>>))
      keys == [k \in 1..Len(type.args) |-> type.args[k].key]
  IN CASE n = nNullable ->
            andThen(refType(firstTypeArg(type), options), LAMBDA t :
              DenOk(unionOf(altsOf(t.val) \o <<Den("leaf", tsNull, <<>>)>>)))
       [] n = nLowCardinality -> refType(firstTypeArg(type), options)
       [] n = nArray ->
            andThen(refType(firstTypeArg(type), options), LAMBDA t :
              DenOk(Den("array", <<>>, <<t.val>>)))
       [] n = nTuple ->
            andThen(refType(type.args[1], options), LAMBDA a :
            andThen(refType(type.args[2], options), LAMBDA b :
              DenOk(Den("object", <<"_", "0", ",", "_", "1">>, <<a.val, b.val>>))))
       [] n = nMap ->
            andThen(refType(secondTypeArg(type), options), LAMBDA v :
              DenOk(Den("map", <<>>, <<v.val>>)))
       [] n \in {nEnum8, nEnum16} ->
            IF type.args = <<>> THEN leafOf(tsString)
            ELSE DenOk(unionOf([k \in 1..Len(keys) |->
                                  Den("leaf", <<"'">> \o keys[k] \o <<"'">>, <<>>)]))
       [] n \in {nInt64, nUInt64} ->
            leafOf(IF options.int64As = "bigint" THEN tsBigint ELSE tsString)
       [] n = nDecimal ->
            leafOf(IF options.decimal = "decimal.js" THEN tsDecimal ELSE tsString)
       [] n \in {nDate, nDateTime, nDateTime64} ->
            leafOf(IF options.datetimeAs = "Date" THEN tsDate ELSE tsString)
       [] n \in {nInt8, nInt16, nInt32, nUInt8, nUInt16, nUInt32, nFloat32, nFloat64} ->
            leafOf(tsNumber)
       [] n \in {nString, nUUID, nFixedString, nIPv4, nIPv6} -> leafOf(tsString)
       [] OTHER ->
            IF options.failOnUnknown THEN [err |-> "Unknown type", val |-> <<>>]
            ELSE leafOf(tsUnknown)

\* C22: without plugins the mapping of a type raises exactly when the reference
\* table raises, and otherwise the string it returns denotes what the table says.
C22_MappingEqualsReferenceTable ==
  (pc = "typed" /\ opts.plugins = <<>>) =>
    bindTo(refType(theType, opts), LAMBDA ref :
      IF ref.err # "" THEN typeRes.err # ""
      ELSE typeRes.err = "" /\ readType(typeRes.ts) = ref.val)

\* the string the interface mapping gives the leaf on its own
leafTs == mapTypeAstToTs(leaf, opts, 0).ts

\* the validator emit wrote for the one column
theSchema == out.ts.val.schemas[1].entries[1].schema

\* C23: the validator of the column is the one built with each leaf judged by its own
\* interface mapping, and the validator of the leaf is the big-integer validator
\* exactly when the leaf maps to bigint, the date validator exactly when it maps to
\* Date, and for Decimal the string validator exactly when decimal is "string".
C23_ValidatorFollowsInterface ==
  (pc = "validated" /\ out # <<>> /\ out.ts.err = "") =>
    /\ theSchema = zodForTypeAst(theType, leafTs, 0).val
    /\ bindTo(zodForTypeAst(leaf, leafTs, 0).val, LAMBDA z :
         /\ leaf.name \in {nInt64, nUInt64} => (z = zBigint <=> leafTs = tsBigint)
         /\ leaf.name \in {nDate, nDateTime, nDateTime64} => (z = zDate <=> leafTs = tsDate)
         /\ leaf.name = nDecimal => (z = zString <=> opts.decimal = "string"))

-----------------------------------------------------------------------------
(* Claims about the parser's work ceilings, clauses and cursor             *)

\* the Errors the parser throws when a scan passes its ceiling
WorkCeilingErrors ==
  {"Skip limit exceeded", "Parentheses depth limit exceeded",
   "Column name search limit exceeded", "Default value parsing limit exceeded",
   "CODEC parsing limit exceeded", "Function argument parsing limit exceeded",
   "Expression capture limit exceeded", "WITH expressions parsing limit exceeded",
   "Token count exceeds safety limit"}

\* the statement is a CREATE TABLE over column definitions
isTableInput == stmts # <<>> /\ \A i \in 1..Len(stmts) : stmts[i].kind = "column"

\* the statement is a materialized view over a projection list
isViewInput == stmts # <<>> /\ stmts[1].kind = "select"

\* parsing the CREATE statement at the start of a text passes a work ceiling
passesCeiling(statement) ==
  bindTo(tokenize(statement), LAMBDA lex :
    \/ Len(lex.tokens) > TokenLimit
    \/ createTable(lex.tokens, 1).err \in WorkCeilingErrors)

\* C24: when the parser passes one of its work ceilings while it parses a statement,
\* parse raises an error to its caller instead of returning.
C24_CeilingErrorReachesCaller ==
  (pc = "parsed" /\ \E i \in 1..Len(kept) : passesCeiling(kept[i]))
    => parse(clauseDdl(stmts)).err # ""

\* C25: a materialized view over a projection list of n items is either refused or
\* yields one table with all n columns and its source table; a list longer than the
\* ceiling of the projection loop is never cut to its first items.
C25_NoShortenedResult ==
  (pc = "parsed" /\ isViewInput) =>
    \/ tables = <<>>
    \/ /\ Len(tables) = 1
       /\ Len(tables[1].columns) = stmts[1].items
       /\ tables[1].mvFrom = <<"t">>

\* what a column definition is made of beyond name and type
DefKinds == <<"plain", "comment", "comment", "remark", "default", "default", "codec",
             "codec", "default">>

\* column names as parse returns them
parsedNames(table) == [i \in 1..Len(table.columns) |-> table.columns[i].name]

\* column names as the statement declares them
declaredNames(parts) == [i \in 1..Len(parts) |-> <<DefNames[parts[i].def]>>]

\* C26: a CREATE TABLE whose column definitions are a name, a type and optional
\* COMMENT, DEFAULT and CODEC clauses yields one table with exactly the declared
\* columns in order, or no table at all.
C26_DeclaredColumnsOrRejected ==
  (pc = "parsed" /\ isTableInput /\ \A i \in 1..Len(stmts) : DefKinds[stmts[i].def] # "remark")
    => \/ tables = <<>>
       \/ /\ Len(tables) = 1
          /\ parsedNames(tables[1]) = declaredNames(stmts)

\* a cursor that moved from p stays within the tokens and did not move back
within(t, p, q) == p <= q /\ q <= Len(t) + 1

C29_SemicolonInsideLiteral ==
  (pc = "parsed" /\ isTableInput) => kept = <<clauseDdl(stmts)>>


-----------------------------------------------------------------------------
(* Claims about the auxiliary declarations and the names of the output     *)

\* the name occurs in the type text as a word of its own
mentions(ts, name) ==
  \E i \in 1..Len(ts) :
    /\ hasAt(ts, i, name)
    /\ (i > 1 => ~isWordChar(ts[i - 1]))
    /\ (i + Len(name) <= Len(ts) => ~isWordChar(ts[i + Len(name)]))

\* the number of entries of the sequence equal to x
timesIn(seq, x) == Cardinality({i \in 1..Len(seq) : seq[i] = x})

\* the number of declarations the output holds for an auxiliary type name: imports of
\* decimal.js for Decimal, aliases of the name for IPv4 and IPv6
declarations(file, name) ==
  IF name = tsDecimal THEN timesIn(file.imports, "decimal.js")
  ELSE timesIn(file.aliases, name)

\* some field of some emitted interface mentions the name
fieldMentions(file, name) ==
  \E i \in 1..Len(file.interfaces) :
    \E j \in 1..Len(file.interfaces[i].properties) :
      mentions(file.interfaces[i].properties[j].type, name)

\* C28: every auxiliary type name (Decimal, IPv4, IPv6) that a field type of the
\* emitted interface mentions, as the whole type or inside a null union, an array, a
\* tuple or a record, is imported or declared exactly once in the same output.
C28_AuxiliaryNamesDeclared ==
  (pc = "validated" /\ out # <<>> /\ out.ts.err = "") =>
    \A name \in {tsDecimal, tsIPv4, tsIPv6} :
      fieldMentions(out.ts.val, name) => declarations(out.ts.val, name) = 1


\* the entries of the sequence are pairwise different
pairwiseDistinct(seq) == \A i, j \in 1..Len(seq) : i # j => seq[i] # seq[j]

namesOf(columns) == [i \in 1..Len(columns) |-> columns[i].name]

\* C30: casing keeps names distinct: a table whose columns have pairwise different
\* names is mapped to a table whose columns have pairwise different names, also with
\* camelCase on, and tables with different names get different interface names.
C30_CasingKeepsNamesDistinct ==
  (pc \in {"mapped", "emitted"} /\ mapped.err = "") =>
    /\ Len(mapped.val) = Len(asts)
    /\ \A i \in 1..Len(asts) :
         pairwiseDistinct(namesOf(asts[i].columns))
           => pairwiseDistinct(namesOf(mapped.val[i].columns))
    /\ \A i, j \in 1..Len(asts) :
         asts[i].name # asts[j].name
           => mapped.val[i].interfaceName # mapped.val[j].interfaceName
====
